---- MODULE Spec2Model ----
(***************************************************************************)
(* Task manager backend: the per-user taxonomies (Category, TaskStatus,    *)
(* TaskLevel) and the Task records that reference them by name, as served  *)
(* by the express route handlers over the mongoose models.                 *)
(*                                                                         *)
(* Each handler is an operator pair: <Handler>Response, the HTTP response  *)
(* the handler sends for a request in the current state, and <Handler>,    *)
(* the action that applies the handler's writes.  A request that is        *)
(* answered with an error writes nothing.  Under Spec requests do not      *)
(* overlap; ConcurrentSpec interleaves the awaits of the create handlers,  *)
(* BootstrapSpec those of initialize-defaults, DeleteRaceSpec those of the *)
(* TaskStatus delete; ListSpec records what the task list returns.         *)
(* The frontend's redux slices and Kanban board are modelled at the end:   *)
(* TaskStoreSpec, CategoryStoreSpec and BoardSpec.                         *)
(***************************************************************************)
EXTENDS Integers, FiniteSets, Sequences, TLC

VARIABLES
    categories,   \* Category collection: a set of documents
    statuses,     \* TaskStatus collection
    levels,       \* TaskLevel collection
    tasks,        \* Task collection
    inflight,     \* requests being served concurrently, each at an await
    listed,       \* the body of the latest response to GET /tasks
    redux,        \* the frontend store: the tasks and the categories slice
    thunks,       \* the async thunks the frontend dispatched, not yet settled
    board         \* what the Kanban board shows: the tasks of each column

\* The store.
vars == <<categories, statuses, levels, tasks>>

\* The frontend.
frontend == <<redux, thunks, board>>

allVars ==
    <<categories, statuses, levels, tasks, inflight, listed, redux, thunks,
      board>>

(***************************** bounds **************************************)
MaxSize == 2      \* size of the store, as measured by Size below
MaxNow  == 2      \* the latest time stamp
MaxListed == 3    \* tasks in the store under ListSpec
MaxRequests == 2  \* requests received under ConcurrentSpec

(***************************** inputs **************************************)
Users == {"u1", "u2"}

\* A field of a request body: <<>> when the body does not carry it
\* (undefined in JS), <<v>> when it carries the value v.
None == <<>>
Some(v) == <<v>>
Opt(S) == {None} \cup {Some(v) : v \in S}

CategoryNameInputs == {"Work", " Work", "Home"}
StatusNameInputs   == {"todo", " todo", "completed"}
LevelNameInputs    == {"High", " High", "Urgent"}
OrderInputs        == {-1, 0}
LevelInputs        == {0, 5, 7}
TaskCategoryInputs == {"Work", "Home"}
TaskStatusInputs   == {"todo", "completed", "To Do", "Completed"}

\* Request bodies.  A create body carries any combination of its fields; an
\* update body (a patch) carries at most one field of the entry.
StatusBodies ==
    [name : Opt(StatusNameInputs), order : Opt(OrderInputs),
     isCompleted : {None, Some(TRUE)}]

StatusPatches ==
    [name : Opt(StatusNameInputs), order : {None}, isCompleted : {None}]
    \cup [name : {None}, order : Opt(OrderInputs), isCompleted : {None}]
    \cup [name : {None}, order : {None}, isCompleted : Opt(BOOLEAN)]

LevelBodies == [name : Opt(LevelNameInputs), level : Opt(LevelInputs)]

LevelPatches ==
    [name : Opt(LevelNameInputs), level : {None}]
    \cup [name : {None}, level : Opt(LevelInputs)]

TaskBodies ==
    [category : Opt(TaskCategoryInputs), status : Opt(TaskStatusInputs)]

\* Document ids a request may address: every id in use and one that is not.
IdInputs(coll) ==
    {e.id : e \in coll} \cup {CHOOSE i \in 1 .. (Cardinality(coll) + 1) :
                                  \A e \in coll : e.id # i}

(*************************** mongoose helpers ******************************)
\* `trim: true` of the String schema types, on the names the model draws.
Trim(s) ==
    CASE s = " Work" -> "Work"
      [] s = " todo" -> "todo"
      [] s = " High" -> "High"
      [] OTHER       -> s

\* Model.findOne({ _id: id, userId: u }): the set is empty or a singleton.
FindOne(coll, u, id) == {e \in coll : e.id = id /\ e.userId = u}

\* Variant: a name filter that is not cast through the schema's trim setter.
FindByName_Untrimmed(coll, u, name) ==
    {e \in coll : e.userId = u /\ e.name = name}

\* Model.findOne({ userId: u, name }) with the query value cast (trimmed).
FindByName(coll, u, name) == {e \in coll : e.userId = u /\ e.name = Trim(name)}

\* Variant: a collection without the unique index.
UniqueNameViolated_NoIndex(coll, u, name, self) == FALSE

\* schema.index({ userId: 1, name: 1 }, { unique: true }): a write that would
\* leave two documents of a user with one name is refused by the store, and
\* the handler's catch answers 500.  `self` is the id of the written document.
UniqueNameViolated(coll, u, name, self) ==
    \E e \in coll : e.userId = u /\ e.name = Trim(name) /\ e.id # self

\* Model.countDocuments({ userId: u })
CountOwned(coll, u) == Cardinality({e \in coll : e.userId = u})

\* Fresh ObjectIds: ids are opaque and only compared for equality, so the
\* k smallest unused numbers stand for k newly generated ids.
FreshIds(coll, k) ==
    LET used == {e.id : e \in coll}
        cand == (1 .. (Cardinality(coll) + k)) \ used
    IN  {i \in cand : Cardinality({j \in cand : j < i}) < k}

NthFresh(coll, k, n) ==
    CHOOSE i \in FreshIds(coll, k) :
        Cardinality({j \in FreshIds(coll, k) : j < i}) = n - 1

NewId(coll) == NthFresh(coll, 1, 1)

\* res.status(code).json(...): the status code, the error it stands for
\* ("none" on success) and the count the message carries.
Response(code, err, count) == [code |-> code, err |-> err, count |-> count]

Ok(r) == r.err = "none"

\* The initialState of the frontend's task slice and category slice.
TaskState ==
    [tasks |-> <<>>, stats |-> None, loading |-> FALSE, error |-> None,
     pagination |-> None]

CategoryState == [categories |-> <<>>, loading |-> FALSE, error |-> None]

(******************************* Init **************************************)
Init ==
    /\ categories = {}
    /\ statuses = {}
    /\ levels = {}
    /\ tasks = {}
    /\ inflight = {}
    /\ listed = None
    /\ redux = [tasks |-> TaskState, categories |-> CategoryState]
    /\ thunks = {}
    /\ board = <<>>

(***************************** categories **********************************)
\* new Category({ ...req.body, userId }) with the schema defaults
NewCategory(id, u, name, isDefault) ==
    [id |-> id, userId |-> u, name |-> Trim(name),
     isDefault |-> isDefault, taskCount |-> 0]

CreateCategoryResponse(u, name) ==
    IF name = None THEN Response(400, "Validation", 0)
    ELSE IF FindByName(categories, u, name[1]) # {}
    THEN Response(400, "DuplicateName", 0)
    ELSE IF UniqueNameViolated(categories, u, name[1], NewId(categories))
    THEN Response(500, "Internal", 0)
    ELSE Response(201, "none", 0)

CreateCategory(u, name) ==
    IF Ok(CreateCategoryResponse(u, name))
    THEN /\ categories' = categories \cup
                {NewCategory(NewId(categories), u, name[1], FALSE)}
         /\ UNCHANGED <<statuses, levels, tasks>>
    ELSE UNCHANGED vars

UpdateCategoryResponse(u, id, name) ==
    IF name # None /\ \E c \in FindByName(categories, u, name[1]) : c.id # id
    THEN Response(400, "DuplicateName", 0)
    ELSE IF FindOne(categories, u, id) = {}
    THEN Response(404, "NotFound", 0)
    ELSE IF name # None /\ UniqueNameViolated(categories, u, name[1], id)
    THEN Response(500, "Internal", 0)
    ELSE Response(200, "none", 0)

\* Variant: a rename that also rewrites the category of the user's tasks.
UpdateCategory_Cascading(u, id, name) ==
    IF Ok(UpdateCategoryResponse(u, id, name))
    THEN /\ categories' =
                {IF e.id = id /\ e.userId = u /\ name # None
                 THEN [e EXCEPT !.name = Trim(name[1])] ELSE e
                 : e \in categories}
         /\ tasks' =
                {IF name # None /\ t.userId = u
                    /\ \E e \in FindOne(categories, u, id) : e.name = t.category
                 THEN [t EXCEPT !.category = Trim(name[1])] ELSE t
                 : t \in tasks}
         /\ UNCHANGED <<statuses, levels>>
    ELSE UNCHANGED vars

UpdateCategory(u, id, name) ==
    IF Ok(UpdateCategoryResponse(u, id, name))
    THEN /\ categories' =
                {IF e.id = id /\ e.userId = u /\ name # None
                 THEN [e EXCEPT !.name = Trim(name[1])] ELSE e
                 : e \in categories}
         /\ UNCHANGED <<statuses, levels, tasks>>
    ELSE UNCHANGED vars

\* Variant: the checks of the delete without the one on taskCount.
DeleteCategoryChecks_IgnoringCount(c) ==
    IF c.isDefault THEN Response(400, "ProtectedDefault", 0)
    ELSE Response(200, "none", 0)

\* The checks of the delete on the document that findOne returned.
DeleteCategoryChecks(c) ==
    IF c.isDefault THEN Response(400, "ProtectedDefault", 0)
    ELSE IF c.taskCount > 0 THEN Response(400, "Referenced", 0)
    ELSE Response(200, "none", 0)

DeleteCategoryResponse(u, id) ==
    IF FindOne(categories, u, id) = {} THEN Response(404, "NotFound", 0)
    ELSE DeleteCategoryChecks(CHOOSE e \in FindOne(categories, u, id) : TRUE)

DeleteCategory(u, id) ==
    IF Ok(DeleteCategoryResponse(u, id))
    THEN /\ categories' = {e \in categories : e.id # id}
         /\ UNCHANGED <<statuses, levels, tasks>>
    ELSE UNCHANGED vars

DefaultCategories == <<"Work", "Personal", "Health", "Learning", "Shopping">>

InitializeDefaultCategoriesResponse(u) ==
    IF CountOwned(categories, u) > 0
    THEN Response(400, "AlreadyInitialized", 0)
    ELSE Response(201, "none", Len(DefaultCategories))

InitializeDefaultCategories(u) ==
    IF Ok(InitializeDefaultCategoriesResponse(u))
    THEN /\ categories' = categories \cup
                {NewCategory(NthFresh(categories, Len(DefaultCategories), i), u,
                             DefaultCategories[i], TRUE)
                 : i \in 1 .. Len(DefaultCategories)}
         /\ UNCHANGED <<statuses, levels, tasks>>
    ELSE UNCHANGED vars

(****************************** statuses ***********************************)
\* new TaskStatus({ name, order, isCompleted, userId, ... })
NewStatus(id, u, name, order, isCompleted, isDefault) ==
    [id |-> id, userId |-> u, name |-> Trim(name), order |-> order,
     isCompleted |-> isCompleted, isDefault |-> isDefault]

\* taskStatusSchema (Joi): name and order >= 0 are required.
CreateStatusResponse(u, name, order) ==
    IF name = None \/ order = None THEN Response(400, "Validation", 0)
    ELSE IF order[1] < 0 THEN Response(400, "Validation", 0)
    ELSE IF FindByName(statuses, u, name[1]) # {}
    THEN Response(409, "DuplicateName", 0)
    ELSE IF UniqueNameViolated(statuses, u, name[1], NewId(statuses))
    THEN Response(500, "Internal", 0)
    ELSE Response(201, "none", 0)

\* An omitted isCompleted reaches the model's default, false.
CreateStatus(u, name, order, isCompleted) ==
    IF Ok(CreateStatusResponse(u, name, order))
    THEN /\ statuses' = statuses \cup
                {NewStatus(NewId(statuses), u, name[1], order[1],
                           IF isCompleted = None THEN FALSE ELSE isCompleted[1],
                           FALSE)}
         /\ UNCHANGED <<categories, levels, tasks>>
    ELSE UNCHANGED vars

\* Variant: the name lookup without the `name !== status.name` exemption.
UpdateStatusResponse_NoSelfExemption(u, id, name, order) ==
    IF order # None /\ order[1] < 0 THEN Response(400, "Validation", 0)
    ELSE IF FindOne(statuses, u, id) = {} THEN Response(404, "NotFound", 0)
    ELSE IF name # None /\ FindByName(statuses, u, name[1]) # {}
    THEN Response(409, "DuplicateName", 0)
    ELSE Response(200, "none", 0)

UpdateStatusResponse(u, id, name, order) ==
    IF order # None /\ order[1] < 0 THEN Response(400, "Validation", 0)
    ELSE IF FindOne(statuses, u, id) = {} THEN Response(404, "NotFound", 0)
    ELSE LET s == CHOOSE e \in FindOne(statuses, u, id) : TRUE IN
         IF name # None /\ name[1] # s.name
            /\ FindByName(statuses, u, name[1]) # {}
         THEN Response(409, "DuplicateName", 0)
         ELSE IF name # None /\ UniqueNameViolated(statuses, u, name[1], id)
         THEN Response(500, "Internal", 0)
         ELSE Response(200, "none", 0)

UpdateStatus(u, id, name, order, isCompleted) ==
    IF Ok(UpdateStatusResponse(u, id, name, order))
    THEN /\ statuses' =
                {IF e.id = id /\ e.userId = u
                 THEN [e EXCEPT
                         !.name = IF name = None THEN @ ELSE Trim(name[1]),
                         !.order = IF order = None THEN @ ELSE order[1],
                         !.isCompleted = IF isCompleted = None THEN @
                                         ELSE isCompleted[1]]
                 ELSE e
                 : e \in statuses}
         /\ UNCHANGED <<categories, levels, tasks>>
    ELSE UNCHANGED vars

\* Variant: the count forgets the userId filter.
TasksUsingStatus_AllUsers(u, name) ==
    Cardinality({t \in tasks : t.status = name})

\* Task.countDocuments({ userId, status: name })
TasksUsingStatus(u, name) ==
    Cardinality({t \in tasks : t.userId = u /\ t.status = name})

\* Variant: the handler without its isDefault guard.
DeleteStatusResponse_NoDefaultGuard(u, id) ==
    IF FindOne(statuses, u, id) = {} THEN Response(404, "NotFound", 0)
    ELSE LET s == CHOOSE e \in FindOne(statuses, u, id) : TRUE IN
         IF TasksUsingStatus(u, s.name) > 0
         THEN Response(409, "Referenced", TasksUsingStatus(u, s.name))
         ELSE Response(200, "none", 0)

DeleteStatusResponse(u, id) ==
    IF FindOne(statuses, u, id) = {} THEN Response(404, "NotFound", 0)
    ELSE LET s == CHOOSE e \in FindOne(statuses, u, id) : TRUE IN
         IF s.isDefault THEN Response(403, "ProtectedDefault", 0)
         ELSE IF TasksUsingStatus(u, s.name) > 0
         THEN Response(409, "Referenced", TasksUsingStatus(u, s.name))
         ELSE Response(200, "none", 0)

DeleteStatus(u, id) ==
    IF Ok(DeleteStatusResponse(u, id))
    THEN /\ statuses' = statuses \ FindOne(statuses, u, id)
         /\ UNCHANGED <<categories, levels, tasks>>
    ELSE UNCHANGED vars

DefaultStatuses ==
    << [name |-> "To Do",       order |-> 1, isCompleted |-> FALSE],
       [name |-> "In Progress", order |-> 2, isCompleted |-> FALSE],
       [name |-> "Review",      order |-> 3, isCompleted |-> FALSE],
       [name |-> "Completed",   order |-> 4, isCompleted |-> TRUE],
       [name |-> "On Hold",     order |-> 5, isCompleted |-> FALSE] >>

\* Variant: the handler without its countDocuments guard.
InitializeDefaultStatusesResponse_Unguarded(u) ==
    Response(201, "none", Len(DefaultStatuses))

InitializeDefaultStatusesResponse(u) ==
    IF CountOwned(statuses, u) > 0
    THEN Response(400, "AlreadyInitialized", 0)
    ELSE Response(201, "none", Len(DefaultStatuses))

InitializeDefaultStatuses(u) ==
    IF Ok(InitializeDefaultStatusesResponse(u))
    THEN /\ statuses' = statuses \cup
                {NewStatus(NthFresh(statuses, Len(DefaultStatuses), i), u,
                           DefaultStatuses[i].name, DefaultStatuses[i].order,
                           DefaultStatuses[i].isCompleted, TRUE)
                 : i \in 1 .. Len(DefaultStatuses)}
         /\ UNCHANGED <<categories, levels, tasks>>
    ELSE UNCHANGED vars

(******************************* levels ************************************)
\* new TaskLevel({ name, level, userId, ... })
NewLevel(id, u, name, level, isDefault) ==
    [id |-> id, userId |-> u, name |-> Trim(name), level |-> level,
     isDefault |-> isDefault]

\* TaskLevel.findOne({ userId, level })
FindByLevel(u, level) == {e \in levels : e.userId = u /\ e.level = level}

\* Joi.number().min(1).max(10)
ValidLevel(level) == level >= 1 /\ level <= 10

\* Variant: the handler without its findOne({ userId, level }) check.
CreateLevelResponse_NoRankCheck(u, name, level) ==
    IF name = None \/ level = None THEN Response(400, "Validation", 0)
    ELSE IF ~ValidLevel(level[1]) THEN Response(400, "Validation", 0)
    ELSE IF FindByName(levels, u, name[1]) # {}
    THEN Response(409, "DuplicateName", 0)
    ELSE IF UniqueNameViolated(levels, u, name[1], NewId(levels))
    THEN Response(500, "Internal", 0)
    ELSE Response(201, "none", 0)

CreateLevelResponse(u, name, level) ==
    IF name = None \/ level = None THEN Response(400, "Validation", 0)
    ELSE IF ~ValidLevel(level[1]) THEN Response(400, "Validation", 0)
    ELSE IF FindByName(levels, u, name[1]) # {}
    THEN Response(409, "DuplicateName", 0)
    ELSE IF FindByLevel(u, level[1]) # {}
    THEN Response(409, "DuplicateRank", 0)
    ELSE IF UniqueNameViolated(levels, u, name[1], NewId(levels))
    THEN Response(500, "Internal", 0)
    ELSE Response(201, "none", 0)

CreateLevel(u, name, level) ==
    IF Ok(CreateLevelResponse(u, name, level))
    THEN /\ levels' = levels \cup
                {NewLevel(NewId(levels), u, name[1], level[1], FALSE)}
         /\ UNCHANGED <<categories, statuses, tasks>>
    ELSE UNCHANGED vars

UpdateLevelResponse(u, id, name, level) ==
    IF level # None /\ ~ValidLevel(level[1]) THEN Response(400, "Validation", 0)
    ELSE IF FindOne(levels, u, id) = {} THEN Response(404, "NotFound", 0)
    ELSE LET l == CHOOSE e \in FindOne(levels, u, id) : TRUE IN
         IF name # None /\ name[1] # l.name
            /\ FindByName(levels, u, name[1]) # {}
         THEN Response(409, "DuplicateName", 0)
         ELSE IF level # None /\ level[1] # l.level
                 /\ FindByLevel(u, level[1]) # {}
         THEN Response(409, "DuplicateRank", 0)
         ELSE IF name # None /\ UniqueNameViolated(levels, u, name[1], id)
         THEN Response(500, "Internal", 0)
         ELSE Response(200, "none", 0)

UpdateLevel(u, id, name, level) ==
    IF Ok(UpdateLevelResponse(u, id, name, level))
    THEN /\ levels' =
                {IF e.id = id /\ e.userId = u
                 THEN [e EXCEPT
                         !.name = IF name = None THEN @ ELSE Trim(name[1]),
                         !.level = IF level = None THEN @ ELSE level[1]]
                 ELSE e
                 : e \in levels}
         /\ UNCHANGED <<categories, statuses, tasks>>
    ELSE UNCHANGED vars

\* Variant: the count over the tasks of every user.
TasksUsingLevel_AllUsers(u, level) ==
    Cardinality({t \in tasks : t.level = level})

\* Task.countDocuments({ userId, level })
TasksUsingLevel(u, level) ==
    Cardinality({t \in tasks : t.userId = u /\ t.level = level})

DeleteLevelResponse(u, id) ==
    IF FindOne(levels, u, id) = {} THEN Response(404, "NotFound", 0)
    ELSE LET l == CHOOSE e \in FindOne(levels, u, id) : TRUE IN
         IF l.isDefault THEN Response(403, "ProtectedDefault", 0)
         ELSE IF TasksUsingLevel(u, l.level) > 0
         THEN Response(409, "Referenced", TasksUsingLevel(u, l.level))
         ELSE Response(200, "none", 0)

DeleteLevel(u, id) ==
    IF Ok(DeleteLevelResponse(u, id))
    THEN /\ levels' = levels \ FindOne(levels, u, id)
         /\ UNCHANGED <<categories, statuses, tasks>>
    ELSE UNCHANGED vars

DefaultLevels ==
    << [name |-> "Critical", level |-> 1],
       [name |-> "High",     level |-> 2],
       [name |-> "Medium",   level |-> 3],
       [name |-> "Low",      level |-> 4],
       [name |-> "Backlog",  level |-> 5] >>

InitializeDefaultLevelsResponse(u) ==
    IF CountOwned(levels, u) > 0
    THEN Response(400, "AlreadyInitialized", 0)
    ELSE Response(201, "none", Len(DefaultLevels))

InitializeDefaultLevels(u) ==
    IF Ok(InitializeDefaultLevelsResponse(u))
    THEN /\ levels' = levels \cup
                {NewLevel(NthFresh(levels, Len(DefaultLevels), i), u,
                          DefaultLevels[i].name, DefaultLevels[i].level, TRUE)
                 : i \in 1 .. Len(DefaultLevels)}
         /\ UNCHANGED <<categories, statuses, tasks>>
    ELSE UNCHANGED vars

(******************************** tasks ************************************)
\* Joi taskSchema: status is one of the legacy literals when present.
LegacyStatuses == {"todo", "in_progress", "completed"}

\* validate(taskSchema) on a task body: category is required and status,
\* when present, is in the enum.  (A title is always supplied.  validate()
\* discards the validated value, so no Joi default reaches req.body.)
ValidTaskBody(category, status) ==
    /\ category # None
    /\ status # None => status[1] \in LegacyStatuses

\* The level a new Task gets: the schema default (the body cannot carry one).
DefaultTaskLevel == 5

\* new Date(): a time later than every stamp the store holds.  Stamps are
\* only compared with each other; 0 stands for an unset completedAt.
Now ==
    LET stamps == {t.completedAt : t \in tasks}
                  \cup {t.createdAt : t \in tasks} \cup {0}
    IN  (CHOOSE n \in stamps : \A m \in stamps : m <= n) + 1

\* taskSchema.pre('save'): the completedAt a saved document leaves with.
\* `modified` is isModified('status').  A stamp is taken when the status
\* names a completed TaskStatus of the user and none was taken before.
PreSave(u, status, completedAt, modified) ==
    IF modified /\ completedAt = 0
       /\ \E s \in statuses : s.userId = u /\ s.name = status /\ s.isCompleted
    THEN Now
    ELSE completedAt

CreateTaskResponse(u, category, status) ==
    IF ~ValidTaskBody(category, status) THEN Response(400, "Validation", 0)
    \* status is required by the model and has no default: save() throws
    ELSE IF status = None THEN Response(500, "Internal", 0)
    ELSE Response(201, "none", 0)

CreateTask(u, category, status) ==
    IF Ok(CreateTaskResponse(u, category, status))
    THEN LET stamp == PreSave(u, Trim(status[1]), 0, TRUE) IN
         \* { timestamps: true } stamps createdAt on the first save
         /\ tasks' = tasks \cup
                {[id |-> NewId(tasks), userId |-> u,
                  category |-> Trim(category[1]), status |-> Trim(status[1]),
                  level |-> DefaultTaskLevel, completedAt |-> stamp,
                  createdAt |-> Now]}
         /\ UNCHANGED <<categories, statuses, levels>>
    ELSE UNCHANGED vars

UpdateTaskResponse(u, id, category, status) ==
    IF ~ValidTaskBody(category, status) THEN Response(400, "Validation", 0)
    ELSE IF FindOne(tasks, u, id) = {} THEN Response(404, "NotFound", 0)
    ELSE Response(200, "none", 0)

\* Task.findOneAndUpdate({ _id, userId }, req.body): a query update, which
\* sets the fields of the body and runs no save middleware.
\* Variant: an update that also resets completedAt.
UpdateTask_ClearsCompletedAt(u, id, category, status) ==
    IF Ok(UpdateTaskResponse(u, id, category, status))
    THEN /\ tasks' =
                {IF e.id = id /\ e.userId = u
                 THEN [e EXCEPT
                         !.category = Trim(category[1]),
                         !.status = IF status = None THEN @ ELSE Trim(status[1]),
                         !.completedAt = 0]
                 ELSE e
                 : e \in tasks}
         /\ UNCHANGED <<categories, statuses, levels>>
    ELSE UNCHANGED vars

UpdateTask(u, id, category, status) ==
    IF Ok(UpdateTaskResponse(u, id, category, status))
    THEN /\ tasks' =
                {IF e.id = id /\ e.userId = u
                 THEN [e EXCEPT
                         !.category = Trim(category[1]),
                         !.status = IF status = None THEN @ ELSE Trim(status[1])]
                 ELSE e
                 : e \in tasks}
         /\ UNCHANGED <<categories, statuses, levels>>
    ELSE UNCHANGED vars

DeleteTaskResponse(u, id) ==
    IF FindOne(tasks, u, id) = {} THEN Response(404, "NotFound", 0)
    ELSE Response(200, "none", 0)

DeleteTask(u, id) ==
    IF Ok(DeleteTaskResponse(u, id))
    THEN /\ tasks' = tasks \ FindOne(tasks, u, id)
         /\ UNCHANGED <<categories, statuses, levels>>
    ELSE UNCHANGED vars

(****************************** reorder ************************************)
\* Variant: the routes with '/reorder' registered before '/:id'.
StatusPutRoutes_ReorderFirst == <<"/reorder", "/:id">>

\* The PUT routes of the task-status router, in the order they are
\* registered: express hands a request to the first route its path matches.
StatusPutRoutes == <<"/:id", "/reorder">>

\* '/:id' matches every path of one segment; a literal route matches itself.
RouteMatches(route, path) == route = "/:id" \/ route = path

RouteOf(path) ==
    LET hits == {i \in DOMAIN StatusPutRoutes :
                    RouteMatches(StatusPutRoutes[i], path)}
    IN  StatusPutRoutes[CHOOSE i \in hits : \A j \in hits : i <= j]

\* Joi.object(...).validate(body): a key the schema does not name is an error.
StatusUpdateKeys ==
    {"name", "description", "color", "order", "isCompleted", "isActive",
     "workflowId"}

ReorderBodyKeys == {"statuses"}

KeysAllowed(bodyKeys, schemaKeys) == bodyKeys \subseteq schemaKeys

ReorderOrders == {-1, 0, 3}

\* Bodies of PUT /reorder: a list of one or two { id, order } pairs.
ReorderLists ==
    LET pairs == [id : IdInputs(statuses), order : ReorderOrders]
    IN  {<<p>> : p \in pairs}
        \cup {<<p, q>> : p \in pairs, q \in {r \in pairs : r.order = 0}}

\* for (const { id, order } of statuses)
\*     await TaskStatus.findOneAndUpdate({ _id: id, userId }, { order })
RECURSIVE ApplyReorder(_, _, _)
ApplyReorder(coll, u, list) ==
    IF list = <<>> THEN coll
    ELSE ApplyReorder(
             {IF e.id = Head(list).id /\ e.userId = u
              THEN [e EXCEPT !.order = Head(list).order] ELSE e : e \in coll},
             u, Tail(list))

\* PUT /reorder with body { statuses: list }.  When the path is routed to
\* '/:id', validate(taskStatusUpdateSchema) sees the body and the update
\* handler is the one that answers.
ReorderResponse(u, list) ==
    IF RouteOf("/reorder") = "/reorder" THEN Response(200, "none", 0)
    ELSE IF ~KeysAllowed(ReorderBodyKeys, StatusUpdateKeys)
    THEN Response(400, "Validation", 0)
    ELSE Response(500, "Internal", 0)

Reorder(u, list) ==
    IF Ok(ReorderResponse(u, list))
    THEN /\ statuses' = ApplyReorder(statuses, u, list)
         /\ UNCHANGED <<categories, levels, tasks>>
    ELSE UNCHANGED vars

(******************************** reads ************************************)
\* GET /:id of each router: Model.findOne({ _id, userId }), 404 when null.
\* A read writes nothing.
GetCategoryResponse(u, id) ==
    IF FindOne(categories, u, id) = {} THEN Response(404, "NotFound", 0)
    ELSE Response(200, "none", 0)

GetCategory(u, id) == UNCHANGED vars

GetStatusResponse(u, id) ==
    IF FindOne(statuses, u, id) = {} THEN Response(404, "NotFound", 0)
    ELSE Response(200, "none", 0)

GetStatus(u, id) == UNCHANGED vars

GetLevelResponse(u, id) ==
    IF FindOne(levels, u, id) = {} THEN Response(404, "NotFound", 0)
    ELSE Response(200, "none", 0)

GetLevel(u, id) == UNCHANGED vars

GetTaskResponse(u, id) ==
    IF FindOne(tasks, u, id) = {} THEN Response(404, "NotFound", 0)
    ELSE Response(200, "none", 0)

GetTask(u, id) == UNCHANGED vars

(****************************** task list **********************************)
\* const { status, category, priority, page = 1, limit = 10 } = req.query
DefaultPage == 1
DefaultLimit == 10

PageInputs  == {None, Some(2), Some(3)}
LimitInputs == {None, Some(1), Some(2)}
StatusFilterInputs == {None, Some("todo")}

\* Number(page), Number(limit) with the destructuring defaults.
PageOf(page) == IF page = None THEN DefaultPage ELSE page[1]
LimitOf(limit) == IF limit = None THEN DefaultLimit ELSE limit[1]

\* Task.find(filter) with filter = { userId } and, when given, { status }.
Matching(u, status) ==
    {t \in tasks : t.userId = u /\ (status = None \/ t.status = status[1])}

\* .sort({ createdAt: -1 }): the documents of S, newest first.
RECURSIVE NewestFirst(_)
NewestFirst(S) ==
    IF S = {} THEN <<>>
    ELSE LET t == CHOOSE x \in S : \A y \in S : y.createdAt <= x.createdAt
         IN  <<t>> \o NewestFirst(S \ {t})

\* Variant: a skip that counts the requested page as well.
Skip_WholePages(page, limit) == page * limit

\* const skip = (Number(page) - 1) * Number(limit)
Skip(page, limit) == (page - 1) * limit

\* .skip(skip).limit(limit) on a sorted result
Window(sorted, skip, limit) ==
    SubSeq(sorted, skip + 1,
           IF skip + limit < Len(sorted) THEN skip + limit ELSE Len(sorted))

\* Math.ceil(n / l) for l >= 1
Ceil(n, l) == (n + l - 1) \div l

\* GET /tasks: the data of the response.
ListTasksResponse(u, status, page, limit) ==
    LET p == PageOf(page)
        l == LimitOf(limit)
        skip == Skip(p, l)
        found == Window(NewestFirst(Matching(u, status)), skip, l)
        totalTasks == Cardinality(Matching(u, status))
    IN  [tasks |-> found,
         currentPage |-> p,
         totalPages |-> Ceil(totalTasks, l),
         totalTasks |-> totalTasks,
         hasNext |-> skip + Len(found) < totalTasks,
         hasPrev |-> p > 1]

\* The request is answered; `listed` keeps the query and what it returned.
ListTasks(u, status, page, limit) ==
    /\ listed' = Some([userId |-> u, status |-> status, page |-> page,
                       limit |-> limit,
                       data |-> ListTasksResponse(u, status, page, limit)])
    /\ UNCHANGED <<vars, inflight, frontend>>

\* Task bodies under ListSpec.
ListedTaskBodies == [category : {Some("Work")},
                     status : {Some("todo"), Some("completed")}]

ListBounded(Request) ==
    Request /\ Cardinality(tasks') <= MaxListed /\ UNCHANGED <<inflight, listed, frontend>>

ListNext ==
    \/ \E u \in Users, b \in ListedTaskBodies :
           ListBounded(CreateTask(u, b.category, b.status))
    \/ \E u \in Users, f \in StatusFilterInputs, p \in PageInputs,
          l \in LimitInputs : ListTasks(u, f, p, l)

ListSpec == Init /\ [][ListNext]_allVars

(************************** overlapping requests ***************************)
\* The create handlers and the TaskLevel update handler, one step per await:
\* each findOne and the final save() is a point where another request may
\* run.  A request in `inflight` carries its user, its body (all bodies here
\* pass validation), the await it is at, the document its findOne loaded,
\* the index of the next default an initialize-defaults is to insert, and
\* the response once sent.
ConcurrentCategoryNames == {"Work", "Home"}
ConcurrentStatusNames == {"todo", "completed"}
ConcurrentLevelNames == {"High", "Urgent"}
ConcurrentLevels == {5, 7}

InitOps == {"initCategories", "initStatuses", "initLevels"}

\* The first await of each handler.
FirstAwait(op) ==
    CASE op = "updateLevel" -> "find"
      [] op = "deleteStatus" -> "findStatus"
      [] op \in InitOps -> "count"
      [] OTHER -> "checkName"

Receive(op, u, id, name, level) ==
    /\ Cardinality(inflight) < MaxRequests
    /\ inflight' = inflight \cup
           {[rid |-> Cardinality(inflight) + 1, op |-> op, userId |-> u,
             id |-> id, name |-> name, level |-> level,
             pc |-> FirstAwait(op), doc |-> None, next |-> 1,
             res |-> None]}
    /\ UNCHANGED <<vars, listed, frontend>>

\* The request moves on to its next await.
Advance(r, pc) == inflight' = (inflight \ {r}) \cup {[r EXCEPT !.pc = pc]}

\* return res.status(code).json(...)
Respond(r, res) ==
    inflight' = (inflight \ {r})
                    \cup {[r EXCEPT !.pc = "done", !.res = Some(res)]}

\* The collection a request works on.
CollectionOf(r) ==
    CASE r.op \in {"createCategory", "initCategories"} -> categories
      [] r.op \in {"createStatus", "initStatuses", "deleteStatus"} -> statuses
      [] OTHER -> levels

\* The await after the name lookup of the TaskLevel handlers: the level
\* lookup, which the update makes only for a level that differs from the
\* loaded document's.
AfterName(r, doc) ==
    IF r.op = "createLevel" THEN "checkLevel"
    ELSE IF r.op = "updateLevel" /\ r.level # None /\ r.level[1] # doc.level
    THEN "checkLevel"
    ELSE "save"

\* updateLevel: const taskLevel = await TaskLevel.findOne({ _id, userId })
StepFind(r) ==
    /\ r.pc = "find"
    /\ IF FindOne(levels, r.userId, r.id) = {}
       THEN Respond(r, Response(404, "NotFound", 0))
       ELSE LET doc == CHOOSE e \in FindOne(levels, r.userId, r.id) : TRUE
            IN  inflight' = (inflight \ {r}) \cup
                    {[r EXCEPT !.doc = Some(doc),
                               !.pc = IF r.name # None /\ r.name[1] # doc.name
                                      THEN "checkName"
                                      ELSE AfterName(r, doc)]}
    /\ UNCHANGED <<vars, listed, frontend>>

\* await Model.findOne({ userId, name })
StepCheckName(r) ==
    /\ r.pc = "checkName"
    /\ IF FindByName(CollectionOf(r), r.userId, r.name[1]) # {}
       THEN Respond(r, Response(IF r.op = "createCategory" THEN 400 ELSE 409,
                                "DuplicateName", 0))
       ELSE Advance(r, AfterName(r, IF r.doc = None THEN None ELSE r.doc[1]))
    /\ UNCHANGED <<vars, listed, frontend>>

\* await TaskLevel.findOne({ userId, level })
StepCheckLevel(r) ==
    /\ r.pc = "checkLevel"
    /\ IF FindByLevel(r.userId, r.level[1]) # {}
       THEN Respond(r, Response(409, "DuplicateRank", 0))
       ELSE Advance(r, "save")
    /\ UNCHANGED <<vars, listed, frontend>>

\* The document save() leaves in the collection: a new one for a create; for
\* the update the stored one with the paths set that the body changed on
\* the loaded document (save() writes the modified paths only).
SavedDocument(r) ==
    CASE r.op = "createCategory" ->
             NewCategory(NewId(categories), r.userId, r.name[1], FALSE)
      [] r.op = "createStatus" ->
             NewStatus(NewId(statuses), r.userId, r.name[1], 0, FALSE, FALSE)
      [] r.op = "createLevel" ->
             NewLevel(NewId(levels), r.userId, r.name[1], r.level[1], FALSE)
      [] OTHER ->
             LET stored == CHOOSE e \in levels : e.id = r.id IN
             [stored EXCEPT
                 !.name = IF r.name = None \/ Trim(r.name[1]) = r.doc[1].name
                          THEN @ ELSE Trim(r.name[1]),
                 !.level = IF r.level = None \/ r.level[1] = r.doc[1].level
                           THEN @ ELSE r.level[1]]

\* await document.save(): the store refuses a write that breaks the unique
\* (userId, name) index and the handler's catch answers 500; the level
\* index is not unique and refuses nothing.
StepSave(r) ==
    /\ r.pc = "save"
    /\ LET doc == SavedDocument(r)
           coll == CollectionOf(r)
           refused == UniqueNameViolated(coll, doc.userId, doc.name, doc.id)
           written == {e \in coll : e.id # doc.id} \cup {doc}
       IN  /\ Respond(r, IF refused THEN Response(500, "Internal", 0)
                         ELSE Response(IF r.op = "updateLevel" THEN 200 ELSE 201,
                                       "none", 0))
           /\ categories' = IF ~refused /\ r.op = "createCategory"
                            THEN written ELSE categories
           /\ statuses' = IF ~refused /\ r.op = "createStatus"
                          THEN written ELSE statuses
           /\ levels' = IF ~refused /\ r.op \in {"createLevel", "updateLevel"}
                        THEN written ELSE levels
    /\ UNCHANGED <<tasks, listed, frontend>>

ConcurrentNext ==
    \/ \E u \in Users, n \in ConcurrentCategoryNames :
           Receive("createCategory", u, 0, Some(n), None)
    \/ \E u \in Users, n \in ConcurrentStatusNames :
           Receive("createStatus", u, 0, Some(n), None)
    \/ \E u \in Users, n \in ConcurrentLevelNames, l \in ConcurrentLevels :
           Receive("createLevel", u, 0, Some(n), Some(l))
    \/ \E u \in Users, id \in IdInputs(levels),
          n \in Opt(ConcurrentLevelNames), l \in Opt(ConcurrentLevels) :
           Receive("updateLevel", u, id, n, l)
    \/ \E r \in inflight : StepFind(r)
    \/ \E r \in inflight : StepCheckName(r)
    \/ \E r \in inflight : StepCheckLevel(r)
    \/ \E r \in inflight : StepSave(r)

ConcurrentSpec == Init /\ [][ConcurrentNext]_allVars

(************************ bodies that carry isDefault ***********************)
\* The keys of categorySchema and categoryUpdateSchema, and of
\* taskStatusSchema: validate() answers 400 to a body with any other key.
CategoryKeys_WithFlag == {"name", "description", "color", "isDefault"}

CategoryKeys == {"name", "description", "color"}

StatusKeys ==
    {"name", "description", "color", "order", "isCompleted", "isActive",
     "workflowId"}

\* POST /categories with body { name, isDefault: flag }
CreateCategoryFlaggedResponse(u, name) ==
    IF ~KeysAllowed({"name", "isDefault"}, CategoryKeys)
    THEN Response(400, "Validation", 0)
    ELSE CreateCategoryResponse(u, Some(name))

\* new Category({ ...req.body, userId }) would take the flag of the body.
CreateCategoryFlagged(u, name, flag) ==
    IF Ok(CreateCategoryFlaggedResponse(u, name))
    THEN /\ categories' = categories \cup
                {NewCategory(NewId(categories), u, name, flag)}
         /\ UNCHANGED <<statuses, levels, tasks>>
    ELSE UNCHANGED vars

\* PUT /categories/:id with body { isDefault: flag }
UpdateCategoryFlaggedResponse(u, id) ==
    IF ~KeysAllowed({"isDefault"}, CategoryKeys)
    THEN Response(400, "Validation", 0)
    ELSE UpdateCategoryResponse(u, id, None)

\* findOneAndUpdate({ _id, userId }, req.body) would write the flag.
UpdateCategoryFlagged(u, id, flag) ==
    IF Ok(UpdateCategoryFlaggedResponse(u, id))
    THEN /\ categories' =
                {IF e.id = id /\ e.userId = u
                 THEN [e EXCEPT !.isDefault = flag] ELSE e : e \in categories}
         /\ UNCHANGED <<statuses, levels, tasks>>
    ELSE UNCHANGED vars

\* POST /task-statuses with body { name, order, isDefault: flag }: the
\* handler destructures the keys it stores, isDefault is not one of them.
CreateStatusFlaggedResponse(u, name, order) ==
    IF ~KeysAllowed({"name", "order", "isDefault"}, StatusKeys)
    THEN Response(400, "Validation", 0)
    ELSE CreateStatusResponse(u, Some(name), Some(order))

CreateStatusFlagged(u, name, order, flag) ==
    IF Ok(CreateStatusFlaggedResponse(u, name, order))
    THEN CreateStatus(u, Some(name), Some(order), None)
    ELSE UNCHANGED vars

(******************************* bounds ************************************)
\* The size of the store: one for each non-default taxonomy entry, for each
\* task, for each seeded (user, kind) and for each seeded entry edited since.
CustomCount ==
    Cardinality({c \in categories : ~c.isDefault})
  + Cardinality({s \in statuses : ~s.isDefault})
  + Cardinality({l \in levels : ~l.isDefault})

InitCount ==
    Cardinality({u \in Users : \E c \in categories : c.userId = u /\ c.isDefault})
  + Cardinality({u \in Users : \E s \in statuses : s.userId = u /\ s.isDefault})
  + Cardinality({u \in Users : \E l \in levels : l.userId = u /\ l.isDefault})

EditedCount ==
    Cardinality({c \in categories : c.isDefault /\
        ~\E i \in DOMAIN DefaultCategories : DefaultCategories[i] = c.name})
  + Cardinality({s \in statuses : s.isDefault /\
        ~\E i \in DOMAIN DefaultStatuses : DefaultStatuses[i] =
            [name |-> s.name, order |-> s.order, isCompleted |-> s.isCompleted]})
  + Cardinality({l \in levels : l.isDefault /\
        ~\E i \in DOMAIN DefaultLevels : DefaultLevels[i] =
            [name |-> l.name, level |-> l.level]})

Size == CustomCount + InitCount + EditedCount + Cardinality(tasks)

WithinBounds ==
    /\ Size <= MaxSize
    /\ \A t \in tasks : t.completedAt <= MaxNow /\ t.createdAt <= MaxNow

\* A request served on its own, whose outcome stays within the bounds of
\* the model.
Bounded(Request) ==
    Request /\ WithinBounds' /\ UNCHANGED <<inflight, listed, frontend>>

(******************************* Next **************************************)
Next ==
    \/ \E u \in Users, n \in Opt(CategoryNameInputs) :
           Bounded(CreateCategory(u, n))
    \/ \E u \in Users, id \in IdInputs(categories),
          n \in Opt(CategoryNameInputs) : Bounded(UpdateCategory(u, id, n))
    \/ \E u \in Users, id \in IdInputs(categories) :
           Bounded(DeleteCategory(u, id))
    \/ \E u \in Users : Bounded(InitializeDefaultCategories(u))
    \/ \E u \in Users, b \in StatusBodies :
           Bounded(CreateStatus(u, b.name, b.order, b.isCompleted))
    \/ \E u \in Users, id \in IdInputs(statuses), b \in StatusPatches :
           Bounded(UpdateStatus(u, id, b.name, b.order, b.isCompleted))
    \/ \E u \in Users, id \in IdInputs(statuses) : Bounded(DeleteStatus(u, id))
    \/ \E u \in Users : Bounded(InitializeDefaultStatuses(u))
    \/ \E u \in Users, b \in LevelBodies :
           Bounded(CreateLevel(u, b.name, b.level))
    \/ \E u \in Users, id \in IdInputs(levels), b \in LevelPatches :
           Bounded(UpdateLevel(u, id, b.name, b.level))
    \/ \E u \in Users, id \in IdInputs(levels) : Bounded(DeleteLevel(u, id))
    \/ \E u \in Users : Bounded(InitializeDefaultLevels(u))
    \/ \E u \in Users, b \in TaskBodies :
           Bounded(CreateTask(u, b.category, b.status))
    \/ \E u \in Users, id \in IdInputs(tasks), b \in TaskBodies :
           Bounded(UpdateTask(u, id, b.category, b.status))
    \/ \E u \in Users, id \in IdInputs(tasks) : Bounded(DeleteTask(u, id))
    \/ \E u \in Users, list \in ReorderLists : Bounded(Reorder(u, list))
    \/ \E u \in Users, id \in IdInputs(categories) :
           Bounded(GetCategory(u, id))
    \/ \E u \in Users, id \in IdInputs(statuses) : Bounded(GetStatus(u, id))
    \/ \E u \in Users, id \in IdInputs(levels) : Bounded(GetLevel(u, id))
    \/ \E u \in Users, id \in IdInputs(tasks) : Bounded(GetTask(u, id))
    \/ \E u \in Users, n \in CategoryNameInputs, flag \in BOOLEAN :
           Bounded(CreateCategoryFlagged(u, n, flag))
    \/ \E u \in Users, id \in IdInputs(categories), flag \in BOOLEAN :
           Bounded(UpdateCategoryFlagged(u, id, flag))
    \/ \E u \in Users, n \in StatusNameInputs, flag \in BOOLEAN :
           Bounded(CreateStatusFlagged(u, n, 0, flag))

Spec == Init /\ [][Next]_allVars

(**************************** racing bootstraps *****************************)
\* initialize-defaults, one step per await: the countDocuments, then one
\* insert per default.  The status and level handlers save() the defaults
\* one by one in a loop; Category.insertMany is one call that the store
\* carries out document by document, in order, stopping at the first one
\* the unique index refuses.  Either way the handler's catch answers 500 and
\* nothing takes back the documents already written.
DefaultCount(r) ==
    CASE r.op = "initCategories" -> Len(DefaultCategories)
      [] r.op = "initStatuses" -> Len(DefaultStatuses)
      [] OTHER -> Len(DefaultLevels)

DefaultDocument(r, i, id) ==
    CASE r.op = "initCategories" ->
             NewCategory(id, r.userId, DefaultCategories[i], TRUE)
      [] r.op = "initStatuses" ->
             NewStatus(id, r.userId, DefaultStatuses[i].name,
                       DefaultStatuses[i].order, DefaultStatuses[i].isCompleted,
                       TRUE)
      [] OTHER ->
             NewLevel(id, r.userId, DefaultLevels[i].name,
                      DefaultLevels[i].level, TRUE)

\* const existingCount = await Model.countDocuments({ userId })
StepCount(r) ==
    /\ r.pc = "count"
    /\ IF CountOwned(CollectionOf(r), r.userId) > 0
       THEN Respond(r, Response(400, "AlreadyInitialized", 0))
       ELSE Advance(r, "insert")
    /\ UNCHANGED <<vars, listed, frontend>>

\* await status.save() of the loop / the next document of insertMany
StepInsert(r) ==
    /\ r.pc = "insert"
    /\ LET coll == CollectionOf(r)
           doc == DefaultDocument(r, r.next, NewId(coll))
           refused == UniqueNameViolated(coll, doc.userId, doc.name, doc.id)
           written == coll \cup {doc}
       IN  /\ IF refused THEN Respond(r, Response(500, "Internal", 0))
              ELSE IF r.next = DefaultCount(r)
              THEN Respond(r, Response(201, "none", DefaultCount(r)))
              ELSE inflight' = (inflight \ {r})
                                   \cup {[r EXCEPT !.next = r.next + 1]}
           /\ categories' = IF ~refused /\ r.op = "initCategories"
                            THEN written ELSE categories
           /\ statuses' = IF ~refused /\ r.op = "initStatuses"
                          THEN written ELSE statuses
           /\ levels' = IF ~refused /\ r.op = "initLevels"
                        THEN written ELSE levels
    /\ UNCHANGED <<tasks, listed, frontend>>

\* The rank of the TaskLevel that a create sends while a bootstrap runs: one
\* that no default has.
BootstrapLevel == CHOOSE l \in ConcurrentLevels :
                     \A i \in DOMAIN DefaultLevels : DefaultLevels[i].level # l

\* Bootstraps of the three kinds, next to creates of a TaskStatus and a
\* TaskLevel that carry the name of the second default of their kind.
BootstrapNext ==
    \/ \E u \in Users, op \in InitOps : Receive(op, u, 0, None, None)
    \/ \E u \in Users :
           Receive("createStatus", u, 0, Some(DefaultStatuses[2].name), None)
    \/ \E u \in Users :
           Receive("createLevel", u, 0, Some(DefaultLevels[2].name),
                   Some(BootstrapLevel))
    \/ \E r \in inflight : StepCount(r)
    \/ \E r \in inflight : StepInsert(r)
    \/ \E r \in inflight : StepCheckName(r)
    \/ \E r \in inflight : StepCheckLevel(r)
    \/ \E r \in inflight : StepSave(r)

BootstrapSpec == Init /\ [][BootstrapNext]_allVars

(************************* delete racing with tasks *************************)
\* The TaskStatus delete, one step per await, next to task requests.  The
\* task handlers make one call to the store each, so they are served whole.

\* const status = await TaskStatus.findOne({ _id, userId }), and the
\* isDefault check that follows it
StepFindStatus(r) ==
    /\ r.pc = "findStatus"
    /\ IF FindOne(statuses, r.userId, r.id) = {}
       THEN Respond(r, Response(404, "NotFound", 0))
       ELSE LET doc == CHOOSE e \in FindOne(statuses, r.userId, r.id) : TRUE
            IN  IF doc.isDefault
                THEN Respond(r, Response(403, "ProtectedDefault", 0))
                ELSE inflight' = (inflight \ {r}) \cup
                         {[r EXCEPT !.doc = Some(doc), !.pc = "countTasks"]}
    /\ UNCHANGED <<vars, listed, frontend>>

\* await Task.countDocuments({ userId, status: status.name })
StepCountTasks(r) ==
    /\ r.pc = "countTasks"
    /\ IF TasksUsingStatus(r.userId, r.doc[1].name) > 0
       THEN Respond(r, Response(409, "Referenced",
                                TasksUsingStatus(r.userId, r.doc[1].name)))
       ELSE Advance(r, "remove")
    /\ UNCHANGED <<vars, listed, frontend>>

\* await status.deleteOne()
StepRemove(r) ==
    /\ r.pc = "remove"
    /\ statuses' = {e \in statuses : e.id # r.doc[1].id}
    /\ Respond(r, Response(200, "none", 0))
    /\ UNCHANGED <<categories, levels, tasks, listed, frontend>>

DeleteRaceNext ==
    \/ \E u \in Users, n \in ConcurrentStatusNames :
           Bounded(CreateStatus(u, Some(n), Some(0), None))
    \/ \E u \in Users, b \in TaskBodies :
           Bounded(CreateTask(u, b.category, b.status))
    \/ \E u \in Users, id \in IdInputs(tasks), b \in TaskBodies :
           Bounded(UpdateTask(u, id, b.category, b.status))
    \/ \E u \in Users, id \in IdInputs(statuses) :
           Receive("deleteStatus", u, id, None, None)
    \/ \E r \in inflight : StepFindStatus(r)
    \/ \E r \in inflight : StepCountTasks(r)
    \/ \E r \in inflight : StepRemove(r)

DeleteRaceSpec == Init /\ [][DeleteRaceNext]_allVars

(*************************** frontend: task slice ***************************)
\* The reducers of taskSlice.extraReducers, each as the slice state it
\* returns.  A thunk is dispatched (pending), waits in `thunks`, and settles
\* as fulfilled or rejected; thunks settle in any order.  What the server
\* answered is an input of the settling step.  The status of a task of the
\* frontend is a sequence of characters, so that it can be lower-cased.
TaskThunks ==
    {"fetchTasks", "fetchTaskStats", "createTask", "updateTask", "deleteTask"}

MaxPending == 2   \* thunks not yet settled
MaxShown == 2     \* tasks in a task list of the frontend

\* The smallest thunk id not in use.
NewThunkId ==
    CHOOSE i \in 1 .. (Cardinality(thunks) + 1) : \A th \in thunks : th.tid # i

NewThunk(type, arg) ==
    [tid |-> NewThunkId, type |-> type, arg |-> arg, answer |-> None]

\* Statuses and tasks the server answers with.
ShownStatuses == {<<"t", "o", "d", "o">>, <<"d", "o", "n", "e">>}

ShownTasks == [id : 1 .. MaxShown, status : ShownStatuses]

ShownTaskLists ==
    UNION {{[i \in 1 .. n |-> [id |-> i, status |-> f[i]]] :
               f \in [1 .. n -> ShownStatuses]} : n \in 0 .. MaxShown}

\* .addCase(<thunk>.pending, ...): fetchTaskStats.pending keeps the error
TaskPending(st, type) ==
    [st EXCEPT !.loading = TRUE,
               !.error = IF type = "fetchTaskStats" THEN @ ELSE None]

\* .addCase(<thunk>.rejected, ...)
TaskRejected(st, message) ==
    [st EXCEPT !.loading = FALSE, !.error = Some(message)]

FetchTasksFulfilled(st, payload) ==
    [st EXCEPT !.loading = FALSE, !.tasks = payload.tasks,
               !.pagination = Some(payload.pagination), !.error = None]

FetchTaskStatsFulfilled(st, payload) ==
    [st EXCEPT !.loading = FALSE, !.stats = Some(payload)]

\* state.tasks.unshift(action.payload)
CreateTaskFulfilled(st, payload) ==
    [st EXCEPT !.loading = FALSE, !.tasks = <<payload>> \o @, !.error = None]

\* findIndex: the first task with the id of the payload, if any
UpdateTaskFulfilled(st, payload) ==
    LET hits == {i \in DOMAIN st.tasks : st.tasks[i].id = payload.id} IN
    [st EXCEPT !.loading = FALSE,
               !.tasks = IF hits = {} THEN @
                         ELSE [@ EXCEPT ![CHOOSE i \in hits :
                                             \A j \in hits : i <= j] = payload],
               !.error = None]

\* state.tasks.filter(task => task._id !== action.payload)
DeleteTaskFulfilled(st, payload) ==
    [st EXCEPT !.loading = FALSE,
               !.tasks = SelectSeq(@, LAMBDA t : t.id # payload),
               !.error = None]

\* dispatch(<thunk>(...)): the pending reducer runs at once.
DispatchTask(type) ==
    /\ Cardinality(thunks) < MaxPending
    /\ thunks' = thunks \cup {NewThunk(type, None)}
    /\ redux' = [redux EXCEPT !.tasks = TaskPending(@, type)]
    /\ UNCHANGED <<vars, inflight, listed, board>>

\* The thunk settles and the slice takes the state the reducer returns.
Settle(th, type, st) ==
    /\ th.type = type
    /\ thunks' = thunks \ {th}
    /\ redux' = [redux EXCEPT !.tasks = st]
    /\ UNCHANGED <<vars, inflight, listed, board>>

TaskStoreNext ==
    \/ \E type \in TaskThunks : DispatchTask(type)
    \/ \E th \in thunks, list \in ShownTaskLists :
           Settle(th, "fetchTasks",
                  FetchTasksFulfilled(redux.tasks,
                      [tasks |-> list,
                       pagination |-> [totalTasks |-> Len(list)]]))
    \/ \E th \in thunks, n \in 0 .. MaxShown :
           Settle(th, "fetchTaskStats",
                  FetchTaskStatsFulfilled(redux.tasks, [total |-> n]))
    \/ \E th \in thunks, t \in ShownTasks :
           /\ Len(redux.tasks.tasks) < MaxShown
           /\ Settle(th, "createTask", CreateTaskFulfilled(redux.tasks, t))
    \/ \E th \in thunks, t \in ShownTasks :
           Settle(th, "updateTask", UpdateTaskFulfilled(redux.tasks, t))
    \/ \E th \in thunks, id \in 1 .. MaxShown :
           Settle(th, "deleteTask", DeleteTaskFulfilled(redux.tasks, id))
    \/ \E th \in thunks :
           Settle(th, th.type,
                  TaskRejected(redux.tasks, <<"F", "a", "i", "l", "e", "d">>))

TaskStoreSpec == Init /\ [][TaskStoreNext]_allVars

(************************* frontend: category slice *************************)
\* The category thunks against the category routes.  A dispatched thunk is
\* served (the handler runs and its response is kept in the thunk's
\* `answer`) and later delivered (the fulfilled or rejected reducer runs);
\* thunks are served and delivered in any order.
CategoryThunks ==
    {"fetchCategories", "createCategory", "updateCategory", "deleteCategory",
     "initializeDefaultCategories"}

\* The user who is logged in on the frontend.
SessionUser == CHOOSE u \in Users : \A v \in Users : u = v \/ u # "u2"

\* Category names in the order of .sort({ name: 1 }).
NameOrder == <<"Health", "Home", "Learning", "Personal", "Shopping", "Work">>

NameRank(n) == CHOOSE i \in DOMAIN NameOrder : NameOrder[i] = n

\* .sort({ isDefault: -1, taskCount: -1, name: 1 })
SortsBefore(c, d) ==
    \/ c.isDefault /\ ~d.isDefault
    \/ c.isDefault = d.isDefault /\ c.taskCount > d.taskCount
    \/ c.isDefault = d.isDefault /\ c.taskCount = d.taskCount
           /\ NameRank(c.name) < NameRank(d.name)

RECURSIVE SortCategories(_)
SortCategories(S) ==
    IF S = {} THEN <<>>
    ELSE LET first == CHOOSE c \in S : \A d \in S \ {c} : SortsBefore(c, d)
         IN  <<first>> \o SortCategories(S \ {first})

\* What the route answers to a thunk in the current store: `ok` and the
\* payload the thunk returns (response.data.data) or rejects with.
Failure(res) == [ok |-> FALSE, payload |-> res.err]

FetchCategoriesAnswer(u) ==
    [ok |-> TRUE,
     payload |-> [categories |->
                     SortCategories({c \in categories : c.userId = u})]]

CreateCategoryAnswer(u, name) ==
    IF ~Ok(CreateCategoryResponse(u, Some(name)))
    THEN Failure(CreateCategoryResponse(u, Some(name)))
    ELSE [ok |-> TRUE,
          payload |-> [category |->
                          NewCategory(NewId(categories), u, name, FALSE)]]

UpdateCategoryAnswer(u, id, name) ==
    IF ~Ok(UpdateCategoryResponse(u, id, Some(name)))
    THEN Failure(UpdateCategoryResponse(u, id, Some(name)))
    ELSE [ok |-> TRUE,
          payload |-> [category |->
              [(CHOOSE c \in FindOne(categories, u, id) : TRUE)
                  EXCEPT !.name = Trim(name)]]]

DeleteCategoryAnswer(u, id) ==
    IF ~Ok(DeleteCategoryResponse(u, id))
    THEN Failure(DeleteCategoryResponse(u, id))
    ELSE [ok |-> TRUE, payload |-> id]

InitializeDefaultCategoriesAnswer(u) ==
    IF ~Ok(InitializeDefaultCategoriesResponse(u))
    THEN Failure(InitializeDefaultCategoriesResponse(u))
    ELSE [ok |-> TRUE,
          payload |-> [categories |->
              [i \in 1 .. Len(DefaultCategories) |->
                  NewCategory(NthFresh(categories, Len(DefaultCategories), i),
                              u, DefaultCategories[i], TRUE)]]]

\* The reducers of categorySlice.extraReducers.
CategoryPending(st) == [st EXCEPT !.loading = TRUE, !.error = None]

CategoryRejected(st, message) ==
    [st EXCEPT !.loading = FALSE, !.error = Some(message)]

FetchCategoriesFulfilled(st, payload) ==
    [st EXCEPT !.loading = FALSE, !.categories = payload.categories]

\* state.categories.push(category)
CreateCategoryFulfilled(st, payload) ==
    [st EXCEPT !.loading = FALSE,
               !.categories = Append(@, payload.category)]

UpdateCategoryFulfilled(st, payload) ==
    LET hits == {i \in DOMAIN st.categories :
                    st.categories[i].id = payload.category.id} IN
    [st EXCEPT !.loading = FALSE,
               !.categories =
                   IF hits = {} THEN @
                   ELSE [@ EXCEPT ![CHOOSE i \in hits : \A j \in hits : i <= j]
                                      = payload.category]]

DeleteCategoryFulfilled(st, payload) ==
    [st EXCEPT !.loading = FALSE,
               !.categories = SelectSeq(@, LAMBDA c : c.id # payload)]

\* categories.forEach(newCat => { if (!state.categories.some(...)) push })
RECURSIVE AddMissing(_, _)
AddMissing(list, new) ==
    IF new = <<>> THEN list
    ELSE AddMissing(IF \E i \in DOMAIN list : list[i].id = Head(new).id
                    THEN list ELSE Append(list, Head(new)),
                    Tail(new))

InitializeDefaultCategoriesFulfilled(st, payload) ==
    [st EXCEPT !.loading = FALSE,
               !.categories = AddMissing(@, payload.categories)]

\* The ids the frontend still holds: in its list, in the arguments of its
\* thunks and in the answers on their way.  The store never gives a new
\* document one of them (an ObjectId is not issued twice).
AnswerIds(th) ==
    IF th.answer = None \/ ~th.answer[1].ok THEN {}
    ELSE LET p == th.answer[1].payload IN
         CASE th.type \in {"fetchCategories", "initializeDefaultCategories"} ->
                  {p.categories[i].id : i \in DOMAIN p.categories}
           [] th.type \in {"createCategory", "updateCategory"} ->
                  {p.category.id}
           [] OTHER -> {p}

HeldIds ==
    {redux.categories.categories[i].id : i \in DOMAIN redux.categories.categories}
    \cup {th.arg.id : th \in thunks}
    \cup UNION {AnswerIds(th) : th \in thunks}

\* dispatch(<thunk>(...)): the pending reducer runs at once.  An update or
\* a delete is dispatched for a category of the list.
DispatchCategory(type, id, name) ==
    /\ Cardinality(thunks) < MaxPending
    /\ type \in {"updateCategory", "deleteCategory"} =>
           \E i \in DOMAIN redux.categories.categories :
               redux.categories.categories[i].id = id
    /\ thunks' = thunks \cup {NewThunk(type, [id |-> id, name |-> name])}
    /\ redux' = [redux EXCEPT !.categories = CategoryPending(@)]
    /\ UNCHANGED <<vars, inflight, listed, board>>

\* The route handler serves the thunk's request.
Serve(th, type, Request, answer) ==
    /\ th.type = type /\ th.answer = None
    /\ Request /\ WithinBounds'
    /\ thunks' = (thunks \ {th}) \cup {[th EXCEPT !.answer = Some(answer)]}
    /\ UNCHANGED <<inflight, listed, redux, board>>

\* The response arrives and the thunk's fulfilled or rejected reducer runs.
Deliver(th, type, st) ==
    /\ th.type = type /\ th.answer # None
    /\ thunks' = thunks \ {th}
    /\ redux' = [redux EXCEPT !.categories =
                    IF th.answer[1].ok THEN st
                    ELSE CategoryRejected(@, th.answer[1].payload)]
    /\ UNCHANGED <<vars, inflight, listed, board>>

CategoryStoreNext ==
    \/ \E type \in {"fetchCategories", "initializeDefaultCategories"} :
           DispatchCategory(type, 0, None)
    \/ \E n \in ConcurrentCategoryNames :
           DispatchCategory("createCategory", 0, Some(n))
    \/ \E id \in IdInputs(categories), n \in ConcurrentCategoryNames :
           DispatchCategory("updateCategory", id, Some(n))
    \/ \E id \in IdInputs(categories) :
           DispatchCategory("deleteCategory", id, None)
    \/ \E th \in thunks :
           Serve(th, "fetchCategories", UNCHANGED vars,
                 FetchCategoriesAnswer(SessionUser))
    \/ \E th \in thunks :
           /\ NewId(categories) \notin HeldIds
           /\ Serve(th, "createCategory",
                    CreateCategory(SessionUser, th.arg.name),
                    CreateCategoryAnswer(SessionUser, th.arg.name[1]))
    \/ \E th \in thunks :
           Serve(th, "updateCategory",
                 UpdateCategory(SessionUser, th.arg.id, th.arg.name),
                 UpdateCategoryAnswer(SessionUser, th.arg.id, th.arg.name[1]))
    \/ \E th \in thunks :
           Serve(th, "deleteCategory", DeleteCategory(SessionUser, th.arg.id),
                 DeleteCategoryAnswer(SessionUser, th.arg.id))
    \/ \E th \in thunks :
           /\ FreshIds(categories, Len(DefaultCategories)) \cap HeldIds = {}
           /\ Serve(th, "initializeDefaultCategories",
                    InitializeDefaultCategories(SessionUser),
                    InitializeDefaultCategoriesAnswer(SessionUser))
    \/ \E th \in thunks :
           Deliver(th, "fetchCategories",
                   FetchCategoriesFulfilled(redux.categories,
                                            th.answer[1].payload))
    \/ \E th \in thunks :
           Deliver(th, "createCategory",
                   CreateCategoryFulfilled(redux.categories,
                                           th.answer[1].payload))
    \/ \E th \in thunks :
           Deliver(th, "updateCategory",
                   UpdateCategoryFulfilled(redux.categories,
                                           th.answer[1].payload))
    \/ \E th \in thunks :
           Deliver(th, "deleteCategory",
                   DeleteCategoryFulfilled(redux.categories,
                                           th.answer[1].payload))
    \/ \E th \in thunks :
           Deliver(th, "initializeDefaultCategories",
                   InitializeDefaultCategoriesFulfilled(redux.categories,
                                                        th.answer[1].payload))

CategoryStoreSpec == Init /\ [][CategoryStoreNext]_allVars

(*************************** frontend: Kanban board ************************)
\* The board shows the tasks of the task slice in its five columns; it is
\* rendered again whenever the slice changes.
UpperCase ==
    <<"A", "B", "C", "D", "E", "F", "G", "H", "I", "J", "K", "L", "M",
      "N", "O", "P", "Q", "R", "S", "T", "U", "V", "W", "X", "Y", "Z">>

LowerCase ==
    <<"a", "b", "c", "d", "e", "f", "g", "h", "i", "j", "k", "l", "m",
      "n", "o", "p", "q", "r", "s", "t", "u", "v", "w", "x", "y", "z">>

\* Variant: a lower-casing that leaves every character as it is.
ToLowerCase_Unchanged(s) == s

\* String.prototype.toLowerCase()
ToLowerCase(s) ==
    [i \in DOMAIN s |->
        IF \E k \in DOMAIN UpperCase : UpperCase[k] = s[i]
        THEN LowerCase[CHOOSE k \in DOMAIN UpperCase : UpperCase[k] = s[i]]
        ELSE s[i]]

\* The status of each column.
ToDo == <<"T", "o", " ", "D", "o">>
InProgress == <<"I", "n", " ", "P", "r", "o", "g", "r", "e", "s", "s">>
Review == <<"R", "e", "v", "i", "e", "w">>
Completed == <<"C", "o", "m", "p", "l", "e", "t", "e", "d">>
OnHold == <<"O", "n", " ", "H", "o", "l", "d">>

columns == <<ToDo, InProgress, Review, Completed, OnHold>>

\* The statusMap object: its keys and the value of each.
statusMap ==
    {[key |-> <<"t", "o", "d", "o">>, value |-> ToDo],
     [key |-> <<"t", "o", " ", "d", "o">>, value |-> ToDo],
     [key |-> <<"T", "o", " ", "D", "o">>, value |-> ToDo],
     [key |-> <<"i", "n", "_", "p", "r", "o", "g", "r", "e", "s", "s">>, value |-> InProgress],
     [key |-> <<"i", "n", " ", "p", "r", "o", "g", "r", "e", "s", "s">>, value |-> InProgress],
     [key |-> <<"I", "n", " ", "P", "r", "o", "g", "r", "e", "s", "s">>, value |-> InProgress],
     [key |-> <<"c", "o", "m", "p", "l", "e", "t", "e", "d">>, value |-> Completed],
     [key |-> <<"C", "o", "m", "p", "l", "e", "t", "e", "d">>, value |-> Completed],
     [key |-> <<"r", "e", "v", "i", "e", "w">>, value |-> Review],
     [key |-> <<"R", "e", "v", "i", "e", "w">>, value |-> Review],
     [key |-> <<"o", "n", "_", "h", "o", "l", "d">>, value |-> OnHold],
     [key |-> <<"o", "n", " ", "h", "o", "l", "d">>, value |-> OnHold],
     [key |-> <<"O", "n", " ", "H", "o", "l", "d">>, value |-> OnHold]}

\* statusMap[key] || fallback: the value of a key the object has, and the
\* fallback for any other (every value is a non-empty string).
StatusMapOr(key, fallback) ==
    IF \E e \in statusMap : e.key = key
    THEN (CHOOSE e \in statusMap : e.key = key).value
    ELSE fallback

\* getTasksByStatus(status): a task without a status is in no column.
getTasksByStatus(shown, status) ==
    IF shown = <<>> THEN <<>>
    ELSE SelectSeq(shown, LAMBDA task :
             /\ task.status # <<>>
             /\ \/ StatusMapOr(ToLowerCase(task.status), task.status) = status
                \/ task.status = status)

\* allColumns.map(column => getTasksByStatus(column.status))
RenderBoard(shown) ==
    [k \in DOMAIN columns |-> getTasksByStatus(shown, columns[k])]

\* Statuses of the tasks the board is given.
BoardStatuses ==
    {<<"t", "o", "d", "o">>, <<"T", "O", "D", "O">>,
     <<"t", "o", " ", "d", "o">>, <<"T", "o", " ", "D", "o">>,
     <<"i", "n", "_", "p", "r", "o", "g", "r", "e", "s", "s">>,
     <<"I", "N", " ", "P", "R", "O", "G", "R", "E", "S", "S">>,
     <<"I", "n", " ", "P", "r", "o", "g", "r", "e", "s", "s">>,
     <<"c", "o", "m", "p", "l", "e", "t", "e", "d">>,
     <<"C", "o", "m", "p", "l", "e", "t", "e", "d">>,
     <<"R", "E", "V", "I", "E", "W">>,
     <<"o", "n", "_", "h", "o", "l", "d">>,
     <<"O", "n", " ", "H", "o", "l", "d">>, <<"d", "o", "n", "e">>, <<>>}

BoardTaskLists ==
    UNION {{[i \in 1 .. n |-> [id |-> i, status |-> f[i]]] :
               f \in [1 .. n -> BoardStatuses]} : n \in 0 .. MaxShown}

\* fetchTasks.fulfilled puts the tasks into the slice, and the board, which
\* selects state.tasks, is rendered with them.
ShowTasks(th, list) ==
    /\ th.type = "fetchTasks"
    /\ thunks' = thunks \ {th}
    /\ redux' = [redux EXCEPT !.tasks =
                    FetchTasksFulfilled(@,
                        [tasks |-> list,
                         pagination |-> [totalTasks |-> Len(list)]])]
    /\ board' = RenderBoard(list)
    /\ UNCHANGED <<vars, inflight, listed>>

BoardNext ==
    \/ DispatchTask("fetchTasks")
    \/ \E th \in thunks, list \in BoardTaskLists : ShowTasks(th, list)

BoardSpec == Init /\ [][BoardNext]_allVars

(***************************************************************************)
(*                              Properties                                 *)
(***************************************************************************)
\* The document of `coll` with the id of `e`, after the step, if any.
After(coll, e) == {d \in coll : d.id = e.id}

DefaultsKept(coll, collAfter) ==
    \A e \in coll : e.isDefault =>
        \E d \in After(collAfter, e) : d.userId = e.userId /\ d.isDefault

DeleteOfDefaultRefused ==
    /\ \A c \in categories : c.isDefault =>
           DeleteCategoryResponse(c.userId, c.id).err = "ProtectedDefault"
    /\ \A s \in statuses : s.isDefault =>
           DeleteStatusResponse(s.userId, s.id).err = "ProtectedDefault"
    /\ \A l \in levels : l.isDefault =>
           DeleteLevelResponse(l.userId, l.id).err = "ProtectedDefault"

\* C1: no request removes an entry with isDefault = true from its collection
\* (it stays, and stays default), and in every state a delete addressed to a
\* default Category, TaskStatus or TaskLevel by its owner is answered with
\* the protected-default error, whether or not tasks reference the entry.
C1_DefaultsNeverDeleted ==
    [][ /\ DefaultsKept(categories, categories')
        /\ DefaultsKept(statuses, statuses')
        /\ DefaultsKept(levels, levels')
        /\ DeleteOfDefaultRefused
        /\ DeleteOfDefaultRefused' ]_vars

\* C1 witness: a default status that no task references, whose delete is
\* refused as protected, next to a task of the same user.
C1_Witness ==
    \E s \in statuses, t \in tasks :
        /\ s.isDefault /\ t.userId = s.userId
        /\ TasksUsingStatus(s.userId, s.name) = 0
        /\ DeleteStatusResponse(s.userId, s.id) =
               Response(403, "ProtectedDefault", 0)

\* The tasks of the owner of category c that carry its name.
TasksInCategory(c) ==
    {t \in tasks : t.userId = c.userId /\ t.category = c.name}

\* C2 (as claimed): a Category whose name is the category of a task of the
\* same user is refused deletion and is in the store after every step.
C2_InUseCategoryKept ==
    [][ \A c \in categories : TasksInCategory(c) # {} =>
            /\ ~Ok(DeleteCategoryResponse(c.userId, c.id))
            /\ After(categories', c) # {} ]_vars

\* C3: for a non-default TaskStatus s of user u, with n the number of u's
\* tasks whose status is s.name: if n > 0 the delete is answered with the
\* referenced-entry error carrying exactly n; a referenced-entry answer
\* always carries n (other users' tasks are not counted); and no step
\* removes s while n > 0.
C3_ReferencedStatusDelete ==
    [][ \A s \in statuses : ~s.isDefault =>
            LET n == Cardinality({t \in tasks : t.userId = s.userId
                                                /\ t.status = s.name})
                r == DeleteStatusResponse(s.userId, s.id)
            IN  /\ n > 0 => r = Response(409, "Referenced", n)
                /\ r.err = "Referenced" => r.count = n /\ n > 0
                /\ After(statuses', s) = {} => n = 0 ]_vars

\* C3 witness: a non-default status whose delete is refused because one task
\* of its owner carries its name.
C3_Witness ==
    \E s \in statuses :
        /\ ~s.isDefault
        /\ DeleteStatusResponse(s.userId, s.id) = Response(409, "Referenced", 1)

NamesUnique(coll) ==
    \A a, b \in coll : a.userId = b.userId /\ a.name = b.name => a = b

\* Some entry of user u in coll, other than the one with id `self`, is named
\* as `name` is stored.
HeldByAnother(coll, u, name, self) ==
    \E e \in coll : e.userId = u /\ e.name = Trim(name) /\ e.id # self

\* C4: in every state no two Categories, no two TaskStatuses and no two
\* TaskLevels of one user have the same name; a create with a name that an
\* entry of the user holds, and a rename of an entry to a name that a
\* different entry of the user holds, are answered with the duplicate-name
\* error; and a create with a name that no entry of the user holds is
\* accepted, whoever else holds it.
C4_NamesUniquePerUser ==
    /\ NamesUnique(categories) /\ NamesUnique(statuses) /\ NamesUnique(levels)
    /\ \A u \in Users :
        /\ \A n \in CategoryNameInputs :
             CreateCategoryResponse(u, Some(n)).err =
                 IF HeldByAnother(categories, u, n, 0)
                 THEN "DuplicateName" ELSE "none"
        /\ \A n \in StatusNameInputs :
             CreateStatusResponse(u, Some(n), Some(0)).err =
                 IF HeldByAnother(statuses, u, n, 0)
                 THEN "DuplicateName" ELSE "none"
        /\ \A n \in LevelNameInputs :
             FindByLevel(u, 7) = {} =>
                 CreateLevelResponse(u, Some(n), Some(7)).err =
                     IF HeldByAnother(levels, u, n, 0)
                     THEN "DuplicateName" ELSE "none"
    /\ \A c \in categories : \A n \in CategoryNameInputs :
         HeldByAnother(categories, c.userId, n, c.id) =>
             UpdateCategoryResponse(c.userId, c.id, Some(n)).err = "DuplicateName"
    /\ \A e \in statuses : \A n \in StatusNameInputs :
         HeldByAnother(statuses, e.userId, n, e.id) =>
             UpdateStatusResponse(e.userId, e.id, Some(n), None).err
                 = "DuplicateName"
    /\ \A l \in levels : \A n \in LevelNameInputs :
         HeldByAnother(levels, l.userId, n, l.id) =>
             UpdateLevelResponse(l.userId, l.id, Some(n), None).err
                 = "DuplicateName"

\* C4 witness: two users each own a Category of one name, and each is
\* refused a second one of that name, written with or without padding.
C4_Witness ==
    \E a, b \in categories :
        /\ a.userId # b.userId /\ a.name = "Work" /\ b.name = "Work"
        /\ CreateCategoryResponse(a.userId, Some(" Work")).err = "DuplicateName"
        /\ CreateCategoryResponse(b.userId, Some("Work")).err = "DuplicateName"

\* The TaskStatus of the owner of task t that t.status names is a completed
\* status.
InCompletedStatus(t) ==
    \E s \in statuses :
        s.userId = t.userId /\ s.name = t.status /\ s.isCompleted

\* C5 (as claimed): a step that changes the status of a task whose
\* completedAt is unset to the name of a completed TaskStatus of its owner
\* leaves the task with completedAt set.
C5_UpdateStampsCompletion ==
    [][ \A t \in tasks : \A d \in After(tasks', t) :
            /\ t.completedAt = 0
            /\ d.userId = t.userId /\ d.status # t.status
            /\ InCompletedStatus(d)
            => d.completedAt # 0 ]_vars

\* C6: a task whose completedAt is set keeps that value through every step
\* that keeps the task, whatever the step does to its status or category.
C6_CompletionMonotonic ==
    [][ \A t \in tasks : \A d \in After(tasks', t) :
            t.completedAt # 0 => d.completedAt = t.completedAt ]_vars

\* C6 witness: a task stamped as completed that has since been moved back to
\* a status that is not a completed one.
C6_Witness ==
    \E t \in tasks :
        t.completedAt # 0 /\ t.status = "todo" /\ ~InCompletedStatus(t)

\* The entries a step adds to a collection.
Inserted(coll, collAfter) == collAfter \ coll

SeededBy(coll, collAfter, u, count) ==
    /\ Cardinality(Inserted(coll, collAfter)) = 5
    /\ count = 5
    /\ \A e \in Inserted(coll, collAfter) : e.userId = u /\ e.isDefault
    /\ coll \subseteq collAfter

\* C7: for each kind, initializeDefaults of a user who owns no entry of the
\* kind adds exactly 5 entries of that user, all default (of the statuses
\* exactly one completed), and reports 5; for a user who owns an entry of the
\* kind it is answered with the already-initialized error and adds nothing.
C7_InitializeDefaults ==
    [][ \A u \in Users :
        /\ CountOwned(categories, u) > 0 =>
             /\ InitializeDefaultCategoriesResponse(u).err = "AlreadyInitialized"
             /\ InitializeDefaultCategories(u) => categories' = categories
        /\ CountOwned(statuses, u) > 0 =>
             /\ InitializeDefaultStatusesResponse(u).err = "AlreadyInitialized"
             /\ InitializeDefaultStatuses(u) => statuses' = statuses
        /\ CountOwned(levels, u) > 0 =>
             /\ InitializeDefaultLevelsResponse(u).err = "AlreadyInitialized"
             /\ InitializeDefaultLevels(u) => levels' = levels
        /\ CountOwned(categories, u) = 0 =>
             /\ Ok(InitializeDefaultCategoriesResponse(u))
             /\ categories' # categories /\ InitializeDefaultCategories(u) =>
                  SeededBy(categories, categories', u,
                           InitializeDefaultCategoriesResponse(u).count)
        /\ CountOwned(statuses, u) = 0 =>
             /\ Ok(InitializeDefaultStatusesResponse(u))
             /\ statuses' # statuses /\ InitializeDefaultStatuses(u) =>
                  /\ SeededBy(statuses, statuses', u,
                              InitializeDefaultStatusesResponse(u).count)
                  /\ Cardinality({s \in Inserted(statuses, statuses') :
                                     s.isCompleted}) = 1
        /\ CountOwned(levels, u) = 0 =>
             /\ Ok(InitializeDefaultLevelsResponse(u))
             /\ levels' # levels /\ InitializeDefaultLevels(u) =>
                  SeededBy(levels, levels', u,
                           InitializeDefaultLevelsResponse(u).count) ]_vars

\* C7 witness: a user holds the five seeded statuses, one of them completed,
\* and a further initializeDefaults is refused.
C7_Witness ==
    \E u \in Users :
        /\ Cardinality({s \in statuses : s.userId = u /\ s.isDefault}) = 5
        /\ Cardinality({s \in statuses : s.userId = u /\ s.isCompleted}) = 1
        /\ InitializeDefaultStatusesResponse(u) =
               Response(400, "AlreadyInitialized", 0)

\* C8 (as claimed): every task's category is the name of a Category of the
\* task's owner.
C8_TaskCategoryExists ==
    \A t \in tasks :
        \E c \in categories : c.userId = t.userId /\ c.name = t.category

\* C9 (as claimed): a user who owns Category 'Work' is accepted when creating
\* a task with category 'Work' and status 'To Do'; a user who owns a
\* completed TaskStatus 'Completed' is accepted when updating a task of
\* theirs to status 'Completed'; and the step that makes a task's status
\* 'Completed' leaves it with completedAt set.
C9_Scenario ==
    [][ \A u \in Users :
        /\ (\E c \in categories : c.userId = u /\ c.name = "Work") =>
             Ok(CreateTaskResponse(u, Some("Work"), Some("To Do")))
        /\ (\E s \in statuses :
                s.userId = u /\ s.name = "Completed" /\ s.isCompleted) =>
             \A t \in tasks : t.userId = u =>
                 /\ Ok(UpdateTaskResponse(u, t.id, Some(t.category),
                                          Some("Completed")))
                 /\ \A d \in After(tasks', t) :
                        d.status = "Completed" /\ t.status # "Completed"
                        => d.completedAt # 0 ]_vars

LevelsUnique ==
    \A a, b \in levels : a.userId = b.userId /\ a.level = b.level => a = b

\* The level numbers a request may carry and the validator admits.
RankInputs == {l \in LevelInputs : ValidLevel(l)}

\* C10 (as claimed): a create whose level number an entry of the user holds,
\* and an update of an entry to a number a different entry of the user
\* holds, are answered with the duplicate-rank error; level numbers are
\* unique per user.
C10_DuplicateRankAlways ==
    /\ LevelsUnique
    /\ \A u \in Users : \A n \in LevelNameInputs : \A l \in RankInputs :
         FindByLevel(u, l) # {} =>
             CreateLevelResponse(u, Some(n), Some(l)).err = "DuplicateRank"
    /\ \A a, b \in levels : \A n \in Opt(LevelNameInputs) :
         a.userId = b.userId /\ a.id # b.id =>
             UpdateLevelResponse(a.userId, a.id, n, Some(b.level)).err
                 = "DuplicateRank"

\* C10 (amended): such a create or update is answered 409, with the
\* duplicate-rank error when the request's name is absent or held by no
\* entry of the user, and with the duplicate-name or the duplicate-rank
\* error otherwise; level numbers are unique per user.
C10_DuplicateRankUnlessName ==
    /\ LevelsUnique
    /\ \A u \in Users : \A n \in LevelNameInputs : \A l \in RankInputs :
         FindByLevel(u, l) # {} =>
             LET r == CreateLevelResponse(u, Some(n), Some(l))
             IN  /\ r.code = 409
                 /\ r.err \in {"DuplicateName", "DuplicateRank"}
                 /\ ~HeldByAnother(levels, u, n, 0) => r.err = "DuplicateRank"
    /\ \A a, b \in levels : \A n \in Opt(LevelNameInputs) :
         a.userId = b.userId /\ a.id # b.id =>
             LET r == UpdateLevelResponse(a.userId, a.id, n, Some(b.level))
             IN  /\ r.code = 409
                 /\ r.err \in {"DuplicateName", "DuplicateRank"}
                 /\ (n = None \/ ~HeldByAnother(levels, a.userId, n[1], 0))
                        => r.err = "DuplicateRank"

\* C10 witness: two levels of one user; moving one to the other's number is
\* refused as a duplicate rank, and as a duplicate name when the request
\* also carries the other's name.
C10_Witness ==
    \E a, b \in levels :
        /\ a.userId = b.userId /\ a.id # b.id /\ ~a.isDefault /\ ~b.isDefault
        /\ UpdateLevelResponse(a.userId, a.id, None, Some(b.level)).err
               = "DuplicateRank"
        /\ UpdateLevelResponse(a.userId, a.id, Some(b.name), Some(b.level)).err
               = "DuplicateName"

\* The entries and tasks of the users other than u are what they were.
OthersUntouched(u) ==
    /\ {c \in categories' : c.userId # u} = {c \in categories : c.userId # u}
    /\ {e \in statuses' : e.userId # u} = {e \in statuses : e.userId # u}
    /\ {l \in levels' : l.userId # u} = {l \in levels : l.userId # u}
    /\ {t \in tasks' : t.userId # u} = {t \in tasks : t.userId # u}

\* A read, update or delete by u of an entry or task of another user is
\* answered not-found, whatever the body.
ForeignIdsNotFound(u) ==
    /\ \A c \in categories : c.userId # u =>
         /\ GetCategoryResponse(u, c.id).err = "NotFound"
         /\ DeleteCategoryResponse(u, c.id).err = "NotFound"
         /\ \A n \in Opt(CategoryNameInputs) :
                UpdateCategoryResponse(u, c.id, n).err = "NotFound"
    /\ \A e \in statuses : e.userId # u =>
         /\ GetStatusResponse(u, e.id).err = "NotFound"
         /\ DeleteStatusResponse(u, e.id).err = "NotFound"
         /\ \A n \in Opt(StatusNameInputs) :
                UpdateStatusResponse(u, e.id, n, None).err = "NotFound"
    /\ \A l \in levels : l.userId # u =>
         /\ GetLevelResponse(u, l.id).err = "NotFound"
         /\ DeleteLevelResponse(u, l.id).err = "NotFound"
         /\ \A n \in Opt(LevelNameInputs) :
                UpdateLevelResponse(u, l.id, n, None).err = "NotFound"
    /\ \A t \in tasks : t.userId # u =>
         /\ GetTaskResponse(u, t.id).err = "NotFound"
         /\ DeleteTaskResponse(u, t.id).err = "NotFound"
         /\ \A n \in TaskCategoryInputs :
                UpdateTaskResponse(u, t.id, Some(n), None).err = "NotFound"

\* u's duplicate-name, already-initialized and referenced outcomes are a
\* function of u's own entries and tasks.
OutcomesOwn(u) ==
    /\ \A n \in CategoryNameInputs :
         CreateCategoryResponse(u, Some(n)).err = "DuplicateName"
             <=> \E c \in categories : c.userId = u /\ c.name = Trim(n)
    /\ \A n \in StatusNameInputs :
         CreateStatusResponse(u, Some(n), Some(0)).err = "DuplicateName"
             <=> \E e \in statuses : e.userId = u /\ e.name = Trim(n)
    /\ \A n \in LevelNameInputs :
         CreateLevelResponse(u, Some(n), Some(7)).err = "DuplicateName"
             <=> \E l \in levels : l.userId = u /\ l.name = Trim(n)
    /\ InitializeDefaultCategoriesResponse(u).err = "AlreadyInitialized"
           <=> \E c \in categories : c.userId = u
    /\ InitializeDefaultStatusesResponse(u).err = "AlreadyInitialized"
           <=> \E e \in statuses : e.userId = u
    /\ InitializeDefaultLevelsResponse(u).err = "AlreadyInitialized"
           <=> \E l \in levels : l.userId = u
    /\ \A e \in statuses : e.userId = u =>
         DeleteStatusResponse(u, e.id).count
             = IF e.isDefault THEN 0
               ELSE Cardinality({t \in tasks : t.userId = u
                                               /\ t.status = e.name})
    /\ \A l \in levels : l.userId = u =>
         DeleteLevelResponse(u, l.id).count
             = IF l.isDefault THEN 0
               ELSE Cardinality({t \in tasks : t.userId = u
                                               /\ t.level = l.level})

\* C12 (as claimed): for every user u, a read, update or delete addressed to
\* an entry or task of another user is answered not-found; each step leaves
\* the entries and tasks of all users but one as they were; and u's
\* duplicate-name, already-initialized and referenced-count outcomes depend
\* on u's own entries and tasks only.
C12_ScopedToCaller ==
    [][ /\ \E u \in Users : OthersUntouched(u)
        /\ \A u \in Users : ForeignIdsNotFound(u) /\ OutcomesOwn(u) ]_vars

\* C13: a step that changes the name of a Category or of a TaskStatus
\* changes nothing else: all tasks, with their category and status strings,
\* all other entries of the collection and the other collections are as
\* before.
C13_RenameDoesNotCascade ==
    [][ /\ \A c \in categories : \A d \in After(categories', c) :
             d.name # c.name =>
                 /\ tasks' = tasks
                 /\ categories' \ {d} = categories \ {c}
                 /\ d = [c EXCEPT !.name = d.name]
                 /\ UNCHANGED <<statuses, levels>>
        /\ \A e \in statuses : \A d \in After(statuses', e) :
             d.name # e.name =>
                 /\ tasks' = tasks
                 /\ statuses' \ {d} = statuses \ {e}
                 /\ d = [e EXCEPT !.name = d.name]
                 /\ UNCHANGED <<categories, levels>> ]_vars

\* C13 witness: a task carries the name of a Category, or of a TaskStatus,
\* of its owner, and the rename of that entry to another name is accepted.
C13_Witness ==
    \/ \E t \in tasks, c \in categories :
        /\ c.userId = t.userId /\ t.category = c.name
        /\ Ok(UpdateCategoryResponse(c.userId, c.id, Some("Home")))
        /\ c.name # "Home"
    \/ \E t \in tasks, e \in statuses :
        /\ e.userId = t.userId /\ t.status = e.name
        /\ Ok(UpdateStatusResponse(e.userId, e.id, Some("completed"), None))
        /\ e.name # "completed"

\* C14 (as claimed): an update of a Category, TaskStatus or TaskLevel
\* addressed to an id under which the caller owns no entry is answered
\* not-found, for every patch the validator admits.
C14_UpdateOfMissingIdNotFound ==
    \A u \in Users :
        /\ \A id \in IdInputs(categories) : FindOne(categories, u, id) = {} =>
             \A n \in Opt(CategoryNameInputs) :
                 UpdateCategoryResponse(u, id, n).err = "NotFound"
        /\ \A id \in IdInputs(statuses) : FindOne(statuses, u, id) = {} =>
             \A n \in Opt(StatusNameInputs) :
                 UpdateStatusResponse(u, id, n, Some(0)).err = "NotFound"
        /\ \A id \in IdInputs(levels) : FindOne(levels, u, id) = {} =>
             \A n \in Opt(LevelNameInputs) :
                 UpdateLevelResponse(u, id, n, Some(7)).err = "NotFound"

\* C15: an update of an entry with a patch that carries the entry's own
\* current name (for a TaskLevel its own name, its own level, or both) is
\* accepted, and it cannot change the collection: the entry keeps its name
\* and level.
C15_SelfCollisionAllowed ==
    /\ \A c \in categories :
         /\ Ok(UpdateCategoryResponse(c.userId, c.id, Some(c.name)))
         /\ ~ENABLED (/\ UpdateCategory(c.userId, c.id, Some(c.name))
                      /\ categories' # categories)
    /\ \A e \in statuses :
         /\ Ok(UpdateStatusResponse(e.userId, e.id, Some(e.name), None))
         /\ ~ENABLED (/\ UpdateStatus(e.userId, e.id, Some(e.name), None, None)
                      /\ statuses' # statuses)
    /\ \A l \in levels : \A n \in {None, Some(l.name)} :
         \A k \in {None, Some(l.level)} :
             /\ Ok(UpdateLevelResponse(l.userId, l.id, n, k))
             /\ ~ENABLED (/\ UpdateLevel(l.userId, l.id, n, k)
                          /\ levels' # levels)

\* C15 witness: a user owns a TaskStatus and a TaskLevel next to each
\* other, and the update of each to its own name (and level) is accepted.
C15_Witness ==
    \E e \in statuses, l \in levels :
        /\ e.userId = l.userId /\ ~e.isDefault /\ ~l.isDefault
        /\ UpdateStatusResponse(e.userId, e.id, Some(e.name), None)
               = Response(200, "none", 0)
        /\ UpdateLevelResponse(l.userId, l.id, Some(l.name), Some(l.level))
               = Response(200, "none", 0)

\* The tasks a step adds.
NewTasks == {t \in tasks' : \A o \in tasks : o.id # t.id}

\* The TaskStatuses of u that are not completed ones.
OpenStatuses(u) == {e \in statuses : e.userId = u /\ ~e.isCompleted}

\* C16 (as claimed): for a user who owns a TaskStatus that is not a
\* completed one, creating a task without a status is accepted, and the
\* step stores the name of the user's open status of lowest order as the
\* task's status; every task a step adds has level 5.
C16_TaskCreateDefaults ==
    [][ /\ \A u \in Users : OpenStatuses(u) # {} =>
             /\ Ok(CreateTaskResponse(u, Some("Work"), None))
             /\ tasks' # tasks /\ CreateTask(u, Some("Work"), None) =>
                  \A t \in NewTasks : \E e \in OpenStatuses(u) :
                      /\ t.status = e.name
                      /\ \A f \in OpenStatuses(u) : e.order <= f.order
        /\ \A t \in NewTasks : t.level = 5 ]_vars

\* The order the last pair of `list` naming id gives, or None.
RECURSIVE ListedOrder(_, _)
ListedOrder(list, id) ==
    IF list = <<>> THEN None
    ELSE IF list[Len(list)].id = id THEN Some(list[Len(list)].order)
    ELSE ListedOrder(SubSeq(list, 1, Len(list) - 1), id)

\* C17 (as claimed): reorder is answered with success for every list of
\* pairs, whether or not the listed ids exist or belong to the caller; the
\* step sets the order of each listed status of the caller to the value
\* given and leaves every other status as it was.
C17_ReorderBestEffort ==
    [][ \A u \in Users : \A list \in ReorderLists :
          /\ Ok(ReorderResponse(u, list))
          /\ statuses' # statuses /\ Reorder(u, list) =>
               \A e \in statuses : \E d \in After(statuses', e) :
                   d = IF e.userId = u /\ ListedOrder(list, e.id) # None
                       THEN [e EXCEPT !.order = ListedOrder(list, e.id)[1]]
                       ELSE e ]_vars

\* C19 (as claimed): the handlers are the only code that runs, so the
\* taskCount a Category has once requests stop is the one the last request
\* left: in every state each Category's taskCount is the number of its
\* owner's tasks that carry its name.
C19_TaskCountConverges ==
    \A c \in categories : c.taskCount = Cardinality(TasksInCategory(c))

Min(a, b) == IF a < b THEN a ELSE b
Max(a, b) == IF a < b THEN b ELSE a

\* C18: for every user, filter, page p >= 1 and limit l >= 1, with n the
\* number of the user's tasks matching the filter: the list returns
\* min(l, max(0, n - (p-1)*l)) tasks, all matching, the i-th of them having
\* exactly (p-1)*l + i - 1 matching tasks created after it (newest first);
\* totalTasks = n, totalPages = ceil(n/l), hasPrev iff p > 1 and hasNext iff
\* p*l < n.
C18_Pagination ==
    \A u \in Users, f \in StatusFilterInputs, page \in PageInputs,
       limit \in LimitInputs :
        LET p == IF page = None THEN 1 ELSE page[1]
            l == IF limit = None THEN 10 ELSE limit[1]
            hits == {t \in tasks : t.userId = u
                                   /\ (f = None \/ t.status = f[1])}
            n == Cardinality(hits)
            r == ListTasksResponse(u, f, page, limit)
        IN  /\ Len(r.tasks) = Min(l, Max(0, n - (p - 1) * l))
            /\ \A i \in 1 .. Len(r.tasks) :
                 /\ r.tasks[i] \in hits
                 /\ Cardinality({t \in hits :
                        t.createdAt > r.tasks[i].createdAt})
                      = (p - 1) * l + i - 1
            /\ r.totalTasks = n
            /\ r.totalPages * l >= n /\ (r.totalPages - 1) * l < n
            /\ r.totalPages >= 0
            /\ r.hasPrev <=> p > 1
            /\ r.hasNext <=> p * l < n
            /\ r.currentPage = p

\* C18 witness: a user with three tasks has listed page 2 with limit 2 and
\* got the oldest task alone, with hasPrev, without hasNext, totalPages 2.
C18_Witness ==
    /\ listed # None
    /\ LET q == listed[1] IN
        /\ q.page = Some(2) /\ q.limit = Some(2) /\ q.status = None
        /\ Cardinality({t \in tasks : t.userId = q.userId}) = 3
        /\ q.data = ListTasksResponse(q.userId, q.status, q.page, q.limit)
        /\ Len(q.data.tasks) = 1
        /\ \A t \in tasks : t.userId = q.userId =>
               q.data.tasks[1].createdAt <= t.createdAt
        /\ q.data.hasPrev /\ ~q.data.hasNext /\ q.data.totalPages = 2

\* C11 (as claimed): under ConcurrentSpec, where the awaits of the create
\* and update requests interleave, no two TaskLevels of one user have the
\* same level number.
C11_RankUniqueWhenConcurrent ==
    \A a, b \in levels :
        a.userId = b.userId /\ a.id # b.id => a.level # b.level

\* A create request that has been answered after it reached its save().
Created(r) ==
    /\ r.op \in {"createCategory", "createStatus", "createLevel"}
    /\ r.pc = "done"
    /\ r.res[1].err \in {"none", "Internal"}

\* C20 (as claimed): under ConcurrentSpec, of two creates of one name by one
\* user that both passed the handler's lookups and were answered, one
\* inserted the single entry of that name and the other was answered with
\* the duplicate-name error, a 4xx.
C20_RaceLoserGetsDuplicateName ==
    \A r, q \in inflight :
        /\ r.rid # q.rid /\ r.op = q.op /\ r.userId = q.userId
        /\ Created(r) /\ Created(q) /\ Trim(r.name[1]) = Trim(q.name[1])
        => /\ Cardinality({e \in CollectionOf(r) :
                  e.userId = r.userId /\ e.name = Trim(r.name[1])}) = 1
           /\ \E w \in {r, q} : \E x \in {r, q} \ {w} :
                  /\ Ok(w.res[1])
                  /\ x.res[1].err = "DuplicateName"
                  /\ x.res[1].code \in 400 .. 499


\* The entries of a collection after a step whose id no entry had before it.
NewEntries(coll, collAfter) ==
    {d \in collAfter : ~\E e \in coll : e.id = d.id}

\* No entry that stays changes its isDefault flag, and entries that come
\* in default come in as the five of a user who had none.
FlagsKept(coll, collAfter) ==
    /\ \A e \in coll : \A d \in After(collAfter, e) : d.isDefault = e.isDefault
    /\ \A d \in NewEntries(coll, collAfter) : d.isDefault =>
           /\ CountOwned(coll, d.userId) = 0
           /\ Cardinality(NewEntries(coll, collAfter)) = 5
           /\ \A e \in NewEntries(coll, collAfter) :
                  e.isDefault /\ e.userId = d.userId

\* C21: a rename of a default entry to a name no entry of its user holds
\* is accepted; no step changes the isDefault flag of an entry, whether
\* the request is a create, an update or a reorder, with or without an
\* isDefault key in its body; and every entry a step adds is non-default
\* unless the step is the seeding of a user who had no entry of the kind.
C21_DefaultFlagFixed ==
    /\ [](/\ \A c \in categories : \A n \in CategoryNameInputs :
              c.isDefault /\ ~HeldByAnother(categories, c.userId, n, 0) =>
                  Ok(UpdateCategoryResponse(c.userId, c.id, Some(n)))
          /\ \A e \in statuses : \A n \in StatusNameInputs :
              e.isDefault /\ ~HeldByAnother(statuses, e.userId, n, 0) =>
                  Ok(UpdateStatusResponse(e.userId, e.id, Some(n), None))
          /\ \A l \in levels : \A n \in LevelNameInputs :
              l.isDefault /\ ~HeldByAnother(levels, l.userId, n, 0) =>
                  Ok(UpdateLevelResponse(l.userId, l.id, Some(n), None)))
    /\ [][ /\ FlagsKept(categories, categories')
            /\ FlagsKept(statuses, statuses')
            /\ FlagsKept(levels, levels') ]_vars

\* C21 witness: a seeded Category that has since been renamed and is still
\* default, while a create and an update whose bodies carry isDefault are
\* both refused.
C21_Witness ==
    \E c \in categories :
        /\ c.isDefault /\ c.name = "Home"
        /\ CreateCategoryFlaggedResponse(c.userId, "Work").err = "Validation"
        /\ UpdateCategoryFlaggedResponse(c.userId, c.id).err = "Validation"

\* Category documents as they can be stored: any flag, any count.
StoredCategories ==
    {[NewCategory(1, u, "Work", d) EXCEPT !.taskCount = k] :
        u \in Users, d \in BOOLEAN, k \in 0 .. MaxSize}

\* C22: the delete of a Category by its owner is accepted exactly when the
\* stored taskCount is 0 and isDefault is false, for the entries of every
\* state and for every document that can be stored; and a step removes a
\* Category only if its taskCount was 0 and it was not default.
C22_CategoryDeleteConditions ==
    /\ [](/\ \A c \in categories :
              Ok(DeleteCategoryResponse(c.userId, c.id))
                  <=> (c.taskCount = 0 /\ ~c.isDefault)
          /\ \A c \in StoredCategories :
              Ok(DeleteCategoryChecks(c)) <=> (c.taskCount = 0 /\ ~c.isDefault))
    /\ [][ \A c \in categories :
             After(categories', c) = {} => c.taskCount = 0 /\ ~c.isDefault ]_vars

\* C22 witness: a user owns a seeded Category, whose delete is refused, and
\* a Category of their own making, whose delete is accepted.
C22_Witness ==
    \E c, d \in categories :
        /\ c.userId = d.userId /\ c.isDefault /\ ~d.isDefault
        /\ DeleteCategoryResponse(c.userId, c.id).err = "ProtectedDefault"
        /\ Ok(DeleteCategoryResponse(d.userId, d.id))

\* The tasks of the owner of TaskLevel l whose level is the number of l.
TasksAtLevel(l) == {t \in tasks : t.userId = l.userId /\ t.level = l.level}

\* C24: the delete of a non-default TaskLevel by its owner is answered with
\* the referenced-entry error and the number of the owner's tasks at its
\* level number exactly when there is at least one such task; otherwise it
\* is accepted and removes the entry; and a step removes a TaskLevel only
\* if no task of its owner was at its level number.
C24_ReferencedLevelDelete ==
    /\ [](\A l \in levels : ~l.isDefault =>
            /\ DeleteLevelResponse(l.userId, l.id) =
                 IF TasksAtLevel(l) # {}
                 THEN Response(409, "Referenced", Cardinality(TasksAtLevel(l)))
                 ELSE Response(200, "none", 0)
            /\ TasksAtLevel(l) = {} =>
                 ENABLED (/\ DeleteLevel(l.userId, l.id)
                          /\ levels' = levels \ {l}))
    /\ [][ \A l \in levels :
             After(levels', l) = {} => TasksAtLevel(l) = {} ]_vars

\* C24 witness: a TaskLevel of rank 5 that a task of its owner is at, so
\* that its delete reports one referencing task.
C24_Witness ==
    \E l \in levels :
        /\ ~l.isDefault /\ Cardinality(TasksAtLevel(l)) = 1
        /\ DeleteLevelResponse(l.userId, l.id) = Response(409, "Referenced", 1)

\* C25: in every state the order of each TaskStatus is at least 0; a create
\* or an update that carries a negative order is refused as invalid, and a
\* reorder request that lists one is refused too.
C25_OrderNonNegative ==
    /\ \A s \in statuses : s.order >= 0
    /\ \A u \in Users : \A n \in StatusNameInputs :
         CreateStatusResponse(u, Some(n), Some(-1)).err = "Validation"
    /\ \A s \in statuses :
         /\ UpdateStatusResponse(s.userId, s.id, None, Some(-1)).err
                = "Validation"
         /\ ~Ok(ReorderResponse(s.userId, <<[id |-> s.id, order |-> -1]>>))

\* C25 witness: a TaskStatus of order 0 whose owner asks, by update and by
\* reorder, for the order -1, and is refused both times.
C25_Witness ==
    \E s \in statuses :
        /\ s.order = 0
        /\ <<[id |-> s.id, order |-> -1]>> \in ReorderLists
        /\ ReorderResponse(s.userId, <<[id |-> s.id, order |-> -1]>>).err
               = "Validation"
        /\ UpdateStatusResponse(s.userId, s.id, None, Some(-1)).err
               = "Validation"

\* The names of the defaults an initialize-defaults request inserts.
DefaultNames(r) == {DefaultDocument(r, i, 0).name : i \in 1 .. DefaultCount(r)}

\* The entries of the user of request r in the collection r works on.
OwnedEntries(r) == {e \in CollectionOf(r) : e.userId = r.userId}

\* C23: once two initializeDefaults requests of one user and kind are both
\* answered, and every request of that user on that kind is such a request,
\* the user holds exactly the five defaults of the kind, each default and each
\* once, however the steps of the requests were interleaved.
C23_BootstrapOnce ==
    \A r, q \in inflight :
        ( /\ r.rid # q.rid /\ r.op \in InitOps /\ r.op = q.op
          /\ r.userId = q.userId /\ r.pc = "done" /\ q.pc = "done"
          /\ \A x \in inflight :
                 x.userId = r.userId /\ CollectionOf(x) = CollectionOf(r)
                     => x.op = r.op /\ x.pc = "done" )
        => /\ Cardinality(OwnedEntries(r)) = DefaultCount(r)
           /\ {e.name : e \in OwnedEntries(r)} = DefaultNames(r)
           /\ \A e \in OwnedEntries(r) : e.isDefault

\* C23 witness: two bootstraps of one user's statuses both counted zero
\* entries; one was answered 201 and the other, refused by the unique index
\* at its first insert, 500.
C23_Witness ==
    \E r, q \in inflight :
        /\ r.op = "initStatuses" /\ q.op = "initStatuses"
        /\ r.userId = q.userId /\ r.pc = "done" /\ q.pc = "done"
        /\ r.res = Some(Response(201, "none", 5))
        /\ q.res = Some(Response(500, "Internal", 0))

\* The initialize-defaults requests of the user and kind of r.
Bootstraps(r) == {q \in inflight : q.op = r.op /\ q.userId = r.userId}

\* C27 (as claimed): a bootstrap of statuses or levels that was answered
\* with an error left nothing behind: once every bootstrap of a user and
\* kind has been answered with an error, the user holds no default entry of
\* the kind.
C27_FailedBootstrapLeavesNothing ==
    \A r \in inflight :
        ( /\ r.op \in {"initStatuses", "initLevels"}
          /\ \A q \in Bootstraps(r) : q.pc = "done" /\ ~Ok(q.res[1]) )
        => \A e \in OwnedEntries(r) : ~e.isDefault

\* C28 (as claimed): in the step that removes a TaskStatus, no task of its
\* owner carries its name.
C28_RemovedStatusUnreferenced ==
    [][ \A s \in statuses :
          After(statuses', s) = {} =>
              ~\E t \in tasks : t.userId = s.userId /\ t.status = s.name
      ]_allVars

\* C29 (as claimed): while a task thunk is pending, the task slice's
\* loading is true.
C29_LoadingWhilePending ==
    (\E th \in thunks : th.type \in TaskThunks) => redux.tasks.loading

\* C30 (as claimed): the category list of the frontend never holds two
\* entries with one _id.
C30_CategoryListWithoutDuplicates ==
    \A i, j \in DOMAIN redux.categories.categories :
        redux.categories.categories[i].id = redux.categories.categories[j].id
            => i = j

\* The legacy literals and phrasings, each with the status of the column of
\* its canonical name.
LegacyVariants ==
    {[text |-> <<"t", "o", "d", "o">>, column |-> ToDo],
     [text |-> <<"t", "o", " ", "d", "o">>, column |-> ToDo],
     [text |-> <<"i", "n", "_", "p", "r", "o", "g", "r", "e", "s", "s">>, column |-> InProgress],
     [text |-> <<"i", "n", " ", "p", "r", "o", "g", "r", "e", "s", "s">>, column |-> InProgress],
     [text |-> <<"c", "o", "m", "p", "l", "e", "t", "e", "d">>, column |-> Completed],
     [text |-> <<"r", "e", "v", "i", "e", "w">>, column |-> Review],
     [text |-> <<"o", "n", "_", "h", "o", "l", "d">>, column |-> OnHold],
     [text |-> <<"o", "n", " ", "h", "o", "l", "d">>, column |-> OnHold]}

\* Two strings that differ at most in the case of their letters.
SameLetters(a, b) ==
    /\ Len(a) = Len(b)
    /\ \A i \in DOMAIN a :
         \/ a[i] = b[i]
         \/ \E k \in DOMAIN UpperCase :
                {a[i], b[i]} = {UpperCase[k], LowerCase[k]}

\* The columns of the board that show the task.
ColumnsOf(task) ==
    {k \in DOMAIN board : \E j \in DOMAIN board[k] : board[k][j] = task}

\* C26: every task of the slice whose status is one of the legacy literals
\* or phrasings, in any letter case, is shown in the column of its canonical
\* name, and every task of the slice is shown in at most one column.
C26_BoardColumns ==
    \A i \in DOMAIN redux.tasks.tasks :
        LET task == redux.tasks.tasks[i] IN
        /\ \A v \in LegacyVariants :
             SameLetters(task.status, v.text) =>
                 \E k \in ColumnsOf(task) : columns[k] = v.column
        /\ Cardinality(ColumnsOf(task)) <= 1

\* C26 witness: the board shows a task whose status is "TODO" under To Do
\* and shows a task whose status is "done" nowhere.
C26_Witness ==
    \E i, j \in DOMAIN redux.tasks.tasks :
        /\ redux.tasks.tasks[i].status = <<"T", "O", "D", "O">>
        /\ redux.tasks.tasks[j].status = <<"d", "o", "n", "e">>
        /\ ColumnsOf(redux.tasks.tasks[i]) = {1}
        /\ ColumnsOf(redux.tasks.tasks[j]) = {}
====
